---- MODULE Spec2Model ----
(***************************************************************************)
(* Draw-list construction and depth resolution of src/src/viewport.cpp.    *)
(*                                                                         *)
(* Part 1 (SpecSort): ViewportSortParentSprites, one action per branch of  *)
(* its while loop, run on every input list drawn from a bounded universe   *)
(* of bounding boxes.                                                      *)
(* Part 2 (Spec): the accumulator _vd and its operations.                  *)
(***************************************************************************)
EXTENDS Integers, Sequences, FiniteSets, TLC

(***************************************************************************)
(* Bounds of the model.                                                    *)
(***************************************************************************)
\* Longest input list handed to the sorter.
MaxSprites == 3
\* World coordinates of the tall boxes range over 0..MaxX, 0..MaxY, 0..MaxZ.
MaxX == 1
MaxY == 2
MaxZ == 1
\* World coordinates of the boxes with thin slices range over 0..MaxThin.
MaxThin == 1
\* z coordinates of the stacked boxes (same footprint) range over 0..MaxStackZ.
MaxStackZ == 3
\* Calls made on the accumulator in one region draw.
MaxCalls == 5
\* Sprite extents w, h, dz range over 0..MaxExtent, bounding box offsets over
\* -1..MaxOffset.
MaxExtent == 2
MaxOffset == 2

(***************************************************************************)
(* Program constants.                                                      *)
(***************************************************************************)
\* ParentSpriteToDraw::order is a uint32; a value v >= 2^31 is written here as
\* v - 2^32, so UINT32_MAX is -1 and UINT32_MAX - 1 is -2.
ORDER_COMPARED == -1
ORDER_RETURNED == -2

\* a > b on the uint32 values that a and b stand for.
UGreater(a, b) == IF (a < 0) = (b < 0) THEN a > b ELSE a < 0

VARIABLES
    boxes,      \* sorter input: sprite id -> AABB (the ParentSpriteToDraw records psdv points to)
    srt,        \* state of one run of ViewportSortParentSprites
    pc,         \* position of the run: "start", "loop", "done"; "accumulate" before it
    vd,         \* the accumulator _vd
    log,        \* the calls made on the accumulator in this region draw
    ndebug,     \* the build defines NDEBUG: assert compiles to nothing
    draw_bounding_boxes,    \* the global _draw_bounding_boxes
    drawlog,    \* what the draw phase of this region draw has done so far, in order
    region,     \* the number of the ViewportDoDraw invocation under way
    chk         \* one call of ViewportDrawChk: the pieces still to look at, those cut and those drawn

sortVars == <<boxes, srt, pc>>

accVars == <<vd, log, ndebug, draw_bounding_boxes, drawlog, region>>

vars == <<boxes, srt, pc, vd, log, ndebug, draw_bounding_boxes, drawlog, region, chk>>

(***************************************************************************)
(* Generic helpers.                                                        *)
(***************************************************************************)
Max2(a, b) == IF a >= b THEN a ELSE b

RemoveAt(seq, i) == SubSeq(seq, 1, i - 1) \o SubSeq(seq, i + 1, Len(seq))

IndexOf(seq, e) == CHOOSE i \in 1..Len(seq) : seq[i] = e

Range(seq) == {seq[i] : i \in 1..Len(seq)}

\* All orderings of a finite set, as sequences without repetition.
Perms(S) == {q \in [1..Cardinality(S) -> S] : \A i, j \in 1..Cardinality(S) : i # j => q[i] # q[j]}

(***************************************************************************)
(* ParentSpriteToDraw bounding boxes.                                      *)
(***************************************************************************)
Box(x0, x1, y0, y1, z0, z1) ==
    [xmin |-> x0, xmax |-> x1, ymin |-> y0, ymax |-> y1, zmin |-> z0, zmax |-> z1]

\* Intervals AddSortableSpriteToDraw can store on one axis: max >= min - 1
\* (max = min - 1 is the thin slice of an extent equal to the negative offset).
Intervals(hi) == {iv \in (0..hi) \X (0..hi) : iv[2] >= iv[1]}
ThinIntervals(hi) == {iv \in (0..hi) \X (0..hi) : iv[2] >= iv[1] - 1}

\* Boxes with min <= max on every axis.
TallBoxes ==
    {Box(ix[1], ix[2], iy[1], iy[2], iz[1], iz[2]) :
        ix \in Intervals(MaxX), iy \in Intervals(MaxY), iz \in Intervals(MaxZ)}

\* Boxes that may be a thin slice along x.
ThinBoxes ==
    {Box(ix[1], ix[2], iy[1], iy[2], iz[1], iz[2]) :
        ix \in ThinIntervals(MaxThin), iy \in Intervals(MaxThin), iz \in Intervals(MaxThin)}

\* Boxes sharing one x/y footprint, stacked along z.
StackBoxes == {Box(0, 1, 0, 1, iz[1], iz[2]) : iz \in Intervals(MaxStackZ)}

\* The scenario of the specification: A and B overlap, C is apart in x.
ScenarioA == Box(0, 9, 0, 9, 0, 9)
ScenarioB == Box(5, 14, 5, 14, 0, 9)
ScenarioC == Box(30, 39, 0, 9, 0, 9)
ScenarioInput == <<ScenarioA, ScenarioB, ScenarioC>>

BoxSum(b) == b.xmin + b.xmax + b.ymin + b.ymax + b.zmin + b.zmax

\* The overlap test of the scan.
Overlap(p, s) == s.xmin <= p.xmax /\ s.ymin <= p.ymax /\ s.zmin <= p.zmax

\* The test of the scan: p is collected into "preceding" when scanning for s.
\* (as if only overlapping boxes were ordered)
IsPrecedingOverlapOnly(p, s) ==
    /\ ~(s.xmax < p.xmin \/ s.ymax < p.ymin \/ s.zmax < p.zmin)
    /\ Overlap(p, s) /\ ~(BoxSum(s) <= BoxSum(p))

\* (as if line 1628 compared the sums with <)
IsPrecedingEqualSums(p, s) ==
    /\ ~(s.xmax < p.xmin \/ s.ymax < p.ymin \/ s.zmax < p.zmin)
    /\ ~(Overlap(p, s) /\ BoxSum(s) < BoxSum(p))

\* (as if lines 1628-1629 compared the sums the other way round)
IsPrecedingSumFlipped(p, s) ==
    /\ ~(s.xmax < p.xmin \/ s.ymax < p.ymin \/ s.zmax < p.zmin)
    /\ ~(Overlap(p, s) /\ BoxSum(p) <= BoxSum(s))

IsPreceding(p, s) ==
    /\ ~(s.xmax < p.xmin \/ s.ymax < p.ymin \/ s.zmax < p.zmin)
    /\ ~(Overlap(p, s) /\ BoxSum(s) <= BoxSum(p))

(***************************************************************************)
(* ViewportSortParentSprites.                                              *)
(* srt.psdv         the vector being sorted, overwritten in place via out  *)
(* srt.out          number of entries written through the out iterator     *)
(* srt.order        sprite id -> ParentSpriteToDraw::order                 *)
(* srt.sprite_order the stack, top at the end of the sequence              *)
(* srt.sprite_list  the forward_list of (xmin+ymin, sprite), as sprite ids *)
(* srt.next_order   the counter of fresh order values                      *)
(* srt.overrun      a write through out past the end of psdv               *)
(* srt.scans        sprite id -> the contents of "preceding" after each    *)
(*                  run of the inner loop for that sprite, in order        *)
(***************************************************************************)
ListKey(bx, id) == bx[id].xmin + bx[id].ymin

\* std::pair's operator<: the key first, then the pointer, i.e. the position
\* of the record in parent_sprites_to_draw.
PairLess(bx, a, b) ==
    \/ ListKey(bx, a) < ListKey(bx, b)
    \/ ListKey(bx, a) = ListKey(bx, b) /\ a < b

\* sprite_list.sort(): the ordering of the list w.r.t. PairLess.
SortedList(bx, ids) ==
    CHOOSE q \in Perms(ids) : \A i, j \in 1..Len(q) : i < j => ~PairLess(bx, q[j], q[i])

\* Lines 1573-1577: the reverse iteration gives the last sprite order 0 and
\* pushes it first, so the first sprite ends on top of the stack.
\* (as if next_order were not incremented)
InitOrderAllZero(n, i) == 0

InitOrder(n, i) == n - i

\* (as if the vector were iterated forwards)
InitStackForward(n) == [k \in 1..n |-> k]

InitStack(n) == [k \in 1..n |-> n + 1 - k]

SortInit(bx) ==
    LET n == Len(bx) IN
    [psdv         |-> [i \in 1..n |-> i],
     out          |-> 0,
     order        |-> [i \in 1..n |-> InitOrder(n, i)],
     sprite_order |-> InitStack(n),
     sprite_list  |-> SortedList(bx, 1..n),
     next_order   |-> n,
     overrun      |-> FALSE,
     scans        |-> [i \in 1..n |-> <<>>]]

\* The state of a run that returned at line 1556, and the idle state.
SortUntouched(bx) ==
    [psdv         |-> [i \in 1..Len(bx) |-> i],
     out          |-> 0,
     order        |-> [i \in 1..Len(bx) |-> 0],
     sprite_order |-> <<>>,
     sprite_list  |-> <<>>,
     next_order   |-> 0,
     overrun      |-> FALSE,
     scans        |-> [i \in 1..Len(bx) |-> <<>>]]

Top(st) == st.sprite_order[Len(st.sprite_order)]

Pop(st) == [st EXCEPT !.sprite_order = SubSeq(st.sprite_order, 1, Len(st.sprite_order) - 1)]

\* (as if out ran backwards from the end of the vector)
EmitFromBack(st, s) ==
    IF st.out < Len(st.psdv)
    THEN [st EXCEPT !.psdv[Len(st.psdv) - st.out] = s, !.out = st.out + 1]
    ELSE [st EXCEPT !.overrun = TRUE, !.out = st.out + 1]

\* *(out++) = s
Emit(st, s) ==
    IF st.out < Len(st.psdv)
    THEN [st EXCEPT !.psdv[st.out + 1] = s, !.out = st.out + 1]
    ELSE [st EXCEPT !.overrun = TRUE, !.out = st.out + 1]

\* (as if the bound were s->xmax + s->ymax)
ScanBoundOfMax(s) == s.xmax + s.ymax

\* The bound of the scan, line 1610.
ScanBound(s) == Max2(s.xmax, s.xmin) + Max2(s.ymax, s.ymin)

\* The inner while loop, lines 1611-1635. x is the position of the iterator,
\* prev the sprite before it (0 for before_begin), pprev the value of
\* preceding_prev (0 for before_begin).
RECURSIVE ScanRec(_, _, _, _, _, _, _)
ScanRec(bx, list, x, prev, s, prec, pprev) ==
    IF x > Len(list) \/ ListKey(bx, list[x]) > ScanBound(bx[s])
    THEN [list |-> list, preceding |-> prec, preceding_prev |-> pprev]
    ELSE IF list[x] = s
    THEN ScanRec(bx, RemoveAt(list, x), x, prev, s, prec, pprev)
    ELSE IF IsPreceding(bx[list[x]], bx[s])
    THEN ScanRec(bx, list, x + 1, list[x], s, Append(prec, list[x]), prev)
    ELSE ScanRec(bx, list, x + 1, list[x], s, prec, pprev)

Scan(bx, st, s) == ScanRec(bx, st.sprite_list, 1, 0, s, <<>>, 0)

\* sprite_list.erase_after(it), it given as the sprite it points to (0 for before_begin).
EraseAfter(list, it) ==
    IF it = 0 THEN RemoveAt(list, 1) ELSE RemoveAt(list, IndexOf(list, it) + 1)

\* The condition of the single-predecessor shortcut, line 1648.
FastPathOk(p, s) == p.xmax <= s.xmax /\ p.ymax <= s.ymax /\ p.zmax <= s.zmax

\* (as if the comparator were a->order < b->order)
SortedByOrderAscending(order, prec) ==
    {q \in Perms(Range(prec)) : \A i, j \in 1..Len(q) : i < j => ~UGreater(order[q[i]], order[q[j]])}

\* std::sort with the comparator a->order > b->order: every arrangement the
\* comparator admits (equivalent elements may end in any order).
SortedByOrder(order, prec) ==
    {q \in Perms(Range(prec)) : \A i, j \in 1..Len(q) : i < j => ~UGreater(order[q[j]], order[q[i]])}

\* (as if the preceding sprites were left where they are in the stack)
PushNone(st, q) == st

\* Lines 1666-1669: a fresh order for, and a push of, each preceding sprite.
RECURSIVE PushAll(_, _)
PushAll(st, q) ==
    IF q = <<>> THEN st
    ELSE PushAll([st EXCEPT !.order[Head(q)] = st.next_order,
                            !.next_order = st.next_order + 1,
                            !.sprite_order = Append(st.sprite_order, Head(q))],
                 Tail(q))

\* Line 1591: the popped sprite was already output.
\* (as if the sprite were looked at without being popped)
IterReturnedNoPop(st) == st

IterReturned(st) == Pop(st)

\* Lines 1594-1598: the popped sprite was compared before, output it.
\* (as if line 1596 were missing)
IterComparedNoMark(st) == Emit(Pop(st), Top(st))

IterCompared(st) == [Emit(Pop(st), Top(st)) EXCEPT !.order[Top(st)] = ORDER_RETURNED]

\* Lines 1637-1642: no preceding sprite.
IterEmpty(st, sc) ==
    [Emit(Pop(st), Top(st)) EXCEPT !.order[Top(st)] = ORDER_RETURNED,
                                   !.sprite_list = sc.list,
                                   !.scans[Top(st)] = Append(@, sc.preceding)]

\* Lines 1645-1655: one preceding sprite that nothing else can precede.
IterFast(st, sc) ==
    LET s == Top(st)
        p == sc.preceding[1]
    IN [Emit(Emit(Pop(st), p), s) EXCEPT !.order[p] = ORDER_RETURNED,
                                         !.order[s] = ORDER_RETURNED,
                                         !.sprite_list = EraseAfter(sc.list, sc.preceding_prev),
                                         !.scans[s] = Append(@, sc.preceding)]

\* (as if line 1663 did not mark the sprite compared)
IterGeneralNoMark(st, sc, q) ==
    LET s == Top(st) IN
    PushAll([Pop(st) EXCEPT !.sprite_list = sc.list,
                            !.sprite_order = Append(Pop(st).sprite_order, s),
                            !.scans[s] = Append(@, sc.preceding)],
            q)

\* Lines 1659-1669: the general path, for one arrangement q of the preceding sprites.
IterGeneral(st, sc, q) ==
    LET s == Top(st) IN
    PushAll([Pop(st) EXCEPT !.order[s] = ORDER_COMPARED,
                            !.sprite_list = sc.list,
                            !.sprite_order = Append(Pop(st).sprite_order, s),
                            !.scans[s] = Append(@, sc.preceding)],
            q)

TakesFastPath(bx, st, sc) ==
    /\ Len(sc.preceding) = 1
    /\ FastPathOk(bx[sc.preceding[1]], bx[Top(st)])

NeedsScan(st) ==
    /\ st.sprite_order # <<>>
    /\ st.order[Top(st)] # ORDER_RETURNED
    /\ st.order[Top(st)] # ORDER_COMPARED

\* One iteration of the while loop, lines 1585-1670, where std::sort returns
\* one fixed arrangement among those its comparator admits.
SortIter(bx, st) ==
    IF st.order[Top(st)] = ORDER_RETURNED THEN IterReturned(st)
    ELSE IF st.order[Top(st)] = ORDER_COMPARED THEN IterCompared(st)
    ELSE LET sc == Scan(bx, st, Top(st)) IN
         IF sc.preceding = <<>> THEN IterEmpty(st, sc)
         ELSE IF TakesFastPath(bx, st, sc) THEN IterFast(st, sc)
         ELSE IterGeneral(st, sc, CHOOSE q \in SortedByOrder(st.order, sc.preceding) : TRUE)

RECURSIVE SortRun(_, _)
SortRun(bx, st) == IF st.sprite_order = <<>> THEN st ELSE SortRun(bx, SortIter(bx, st))

\* The vector ViewportSortParentSprites leaves behind for the input bx.
SortResult(bx) == IF Len(bx) < 2 THEN SortUntouched(bx).psdv ELSE SortRun(bx, SortInit(bx)).psdv

(***************************************************************************)
(* The accumulator _vd (struct ViewportDrawer) and its operations.         *)
(*                                                                         *)
(* An operation is an operator from the accumulator before the call to the *)
(* set of accumulators the call can leave behind.  It has more than one    *)
(* element only where the call writes through a pointer into vector        *)
(* storage that a later emplace_back has released.                         *)
(*                                                                         *)
(* Palette, sub-sprite and the transparency bit are payload that no branch *)
(* of these operations reads; the records keep the image and the numbers.  *)
(***************************************************************************)
SPR_EMPTY_BOUNDING_BOX == "SPR_EMPTY_BOUNDING_BOX"

SPRITE_COMBINE_NONE == "SPRITE_COMBINE_NONE"
SPRITE_COMBINE_PENDING == "SPRITE_COMBINE_PENDING"
SPRITE_COMBINE_ACTIVE == "SPRITE_COMBINE_ACTIVE"

FOUNDATION_PART_NONE == "FOUNDATION_PART_NONE"
FOUNDATION_PART_NORMAL == "FOUNDATION_PART_NORMAL"
FOUNDATION_PART_HALFTILE == "FOUNDATION_PART_HALFTILE"
FOUNDATION_PART_END == "FOUNDATION_PART_END"

\* The indices 0 .. FOUNDATION_PART_END - 1 of the per-part arrays.
FoundationParts == {FOUNDATION_PART_NORMAL, FOUNDATION_PART_HALFTILE}

\* Scale of the pixel offsets (zoom_type.h).
ZOOM_LVL_BASE == 4

Min2(a, b) == IF a <= b THEN a ELSE b

Point(px, py) == [x |-> px, y |-> py]

\* int *last_child: null, or the address of the first_child field of element
\* idx of parent_sprites_to_draw, or of the next field of element idx of
\* child_screen_sprites_to_draw.  gen names the storage block the vector had
\* when the address was taken.
NullPtr == [vec |-> "null", idx |-> 0, gen |-> 0]

FirstChildPtr(v, i) == [vec |-> "parent", idx |-> i, gen |-> v.parent_gen]

NextPtr(v, i) == [vec |-> "child", idx |-> i, gen |-> v.child_gen]

\* The pointer still addresses an element of the vector it was taken from.
Live(v, p) ==
    \/ p.vec = "parent" /\ p.gen = v.parent_gen /\ p.idx < Len(v.parent_sprites_to_draw)
    \/ p.vec = "child" /\ p.gen = v.child_gen /\ p.idx < Len(v.child_screen_sprites_to_draw)

\* std::vector grows its storage when size() = capacity(): the elements move
\* to a new block and every address into the old block is released.
GrowCap(cap) == IF cap = 0 THEN 1 ELSE 2 * cap

ParentEmplaceBack(v, ps) ==
    LET full == Len(v.parent_sprites_to_draw) = v.parent_cap IN
    [v EXCEPT !.parent_sprites_to_draw = Append(@, ps),
              !.parent_cap = IF full THEN GrowCap(@) ELSE @,
              !.parent_gen = IF full THEN @ + 1 ELSE @]

ChildEmplaceBack(v, cs) ==
    LET full == Len(v.child_screen_sprites_to_draw) = v.child_cap IN
    [v EXCEPT !.child_screen_sprites_to_draw = Append(@, cs),
              !.child_cap = IF full THEN GrowCap(@) ELSE @,
              !.child_gen = IF full THEN @ + 1 ELSE @]

\* *p = val.  Through a released address the store does not reach the draw
\* lists: it lands in freed storage (ub) or the process faults.
StoreLink(v, p, val) ==
    IF Live(v, p) /\ p.vec = "parent"
    THEN {[v EXCEPT !.parent_sprites_to_draw[p.idx + 1].first_child = val]}
    ELSE IF Live(v, p) /\ p.vec = "child"
    THEN {[v EXCEPT !.child_screen_sprites_to_draw[p.idx + 1].next = val]}
    ELSE {[v EXCEPT !.ub = TRUE], [v EXCEPT !.abort = "fault"]}

\* _vd as ViewportDoDraw (lines 1773-1780) and the first visible tile of
\* ViewportAddLandscape (lines 1308-1313) leave it, the vectors empty with
\* cap elements of storage kept from earlier region draws.
NewViewportDrawer(dpi, cap) ==
    [dpi |-> dpi,
     string_sprites_to_draw |-> <<>>,
     tile_sprites_to_draw |-> <<>>,
     parent_sprites_to_draw |-> <<>>,
     parent_sprites_to_sort |-> <<>>,
     child_screen_sprites_to_draw |-> <<>>,
     last_child |-> NullPtr,
     combine_sprites |-> SPRITE_COMBINE_NONE,
     foundation |-> [p \in FoundationParts |-> -1],
     foundation_part |-> FOUNDATION_PART_NONE,
     last_foundation_child |-> [p \in FoundationParts |-> NullPtr],
     foundation_offset |-> [p \in FoundationParts |-> Point(0, 0)],
     parent_cap |-> cap, parent_gen |-> 0,
     child_cap |-> cap, child_gen |-> 0,
     ub |-> FALSE,
     abort |-> "none"]

\* A failed assert ends the process, unless the build defines NDEBUG.
AssertFails(nd, cond) == ~cond /\ ~nd

Aborted(v, why) == [v EXCEPT !.abort = why]

\* Lines 1308-1313: ViewportAddLandscape before each tile's draw_tile_proc.
TileReset(v) ==
    [v EXCEPT !.foundation_part = FOUNDATION_PART_NONE,
              !.foundation = [p \in FoundationParts |-> -1],
              !.last_foundation_child = [p \in FoundationParts |-> NullPtr]]

\* pt is RemapCoords of the world position, offs the extra pixel offset.
AddTileSpriteToDraw(v, image, pt, offs) ==
    [v EXCEPT !.tile_sprites_to_draw =
        Append(@, [image |-> image, x |-> pt.x + offs.x, y |-> pt.y + offs.y])]

\* Line 867.
NoAttachmentPoint(v) == v.last_child = NullPtr

AddChildSpriteScreen(v, image, x, y, scale) ==
    IF NoAttachmentPoint(v) THEN {v}
    ELSE LET cs == [image |-> image,
                    x |-> IF scale THEN x * ZOOM_LVL_BASE ELSE x,
                    y |-> IF scale THEN y * ZOOM_LVL_BASE ELSE y,
                    next |-> -1]
             Linked(w) ==
                LET w1 == ChildEmplaceBack(w, cs)
                    tail == NextPtr(w1, Len(w1.child_screen_sprites_to_draw) - 1)
                IN  [w1 EXCEPT
                        !.last_foundation_child =
                            [p \in FoundationParts |-> IF @[p] = v.last_child THEN tail ELSE @[p]],
                        !.last_child = tail]
         IN  {IF w.abort # "none" THEN w ELSE Linked(w) :
                w \in StoreLink(v, v.last_child, Len(v.child_screen_sprites_to_draw))}

\* r is one call of AddSortableSpriteToDraw: its arguments, and what the
\* projection and the sprite metadata lookup return for them:
\*   r.pt      RemapCoords(x, y, z)
\*   r.bb      the four projected corner coordinates of lines 727-730
\*   r.spr     GetSprite(image): x_offs, y_offs, width, height
Outside(dpi, left, right, top, bottom) ==
    \/ left >= dpi.left + dpi.width
    \/ right <= dpi.left
    \/ top >= dpi.top + dpi.height
    \/ bottom <= dpi.top

\* Lines 666-670: the clip test of a sprite inside a combine block.
CombinedClipped(v, r) ==
    Outside(v.dpi, r.pt.x + r.spr.x_offs, r.pt.x + r.spr.x_offs + r.spr.width,
                   r.pt.y + r.spr.y_offs, r.pt.y + r.spr.y_offs + r.spr.height)

AddCombinedSpriteFromPosition(v, r) ==
    IF CombinedClipped(v, r) THEN {v}
    ELSE LET pstd == v.parent_sprites_to_draw[Len(v.parent_sprites_to_draw)] IN
         AddChildSpriteScreen(v, r.image, r.pt.x - pstd.x, r.pt.y - pstd.y, FALSE)

AddCombinedSprite(v, r) ==
    IF CombinedClipped(v, r) THEN {v}
    ELSE LET pstd == v.parent_sprites_to_draw[Len(v.parent_sprites_to_draw)] IN
         AddChildSpriteScreen(v, r.image, r.pt.x - pstd.left, r.pt.y - pstd.top, FALSE)

ScreenExtentsOfBoth(r, dbb) ==
    LET empty == r.image = SPR_EMPTY_BOUNDING_BOX
        left0 == IF empty THEN r.bb.left ELSE r.pt.x + r.spr.x_offs
        right0 == IF empty THEN r.bb.right + 1 ELSE r.pt.x + r.spr.x_offs + r.spr.width
        top0 == IF empty THEN r.bb.top ELSE r.pt.y + r.spr.y_offs
        bottom0 == IF empty THEN r.bb.bottom + 1 ELSE r.pt.y + r.spr.y_offs + r.spr.height
    IN  [tmp_left |-> left0, tmp_top |-> top0,
         left |-> Min2(left0, r.bb.left),
         right |-> Max2(right0, r.bb.right + 1),
         top |-> Min2(top0, r.bb.top),
         bottom |-> Max2(bottom0, r.bb.bottom + 1)]

\* Lines 725-745: the screen extents the clip test looks at, and the corner
\* kept as the parent's left/top.
ScreenExtents(r, dbb) ==
    LET empty == r.image = SPR_EMPTY_BOUNDING_BOX
        left0 == IF empty THEN r.bb.left ELSE r.pt.x + r.spr.x_offs
        right0 == IF empty THEN r.bb.right + 1 ELSE r.pt.x + r.spr.x_offs + r.spr.width
        top0 == IF empty THEN r.bb.top ELSE r.pt.y + r.spr.y_offs
        bottom0 == IF empty THEN r.bb.bottom + 1 ELSE r.pt.y + r.spr.y_offs + r.spr.height
        widen == dbb /\ ~empty
    IN  [tmp_left |-> left0, tmp_top |-> top0,
         left |-> IF widen THEN Min2(left0, r.bb.left) ELSE left0,
         right |-> IF widen THEN Max2(right0, r.bb.right + 1) ELSE right0,
         top |-> IF widen THEN Min2(top0, r.bb.top) ELSE top0,
         bottom |-> IF widen THEN Max2(bottom0, r.bb.bottom + 1) ELSE bottom0]

\* Lines 748-753.
SortableClipped(v, r, dbb) ==
    LET e == ScreenExtents(r, dbb) IN Outside(v.dpi, e.left, e.right, e.top, e.bottom)

NewParentSpriteFullExtent(r, dbb) ==
    [image |-> r.image,
     x |-> r.pt.x, y |-> r.pt.y,
     left |-> ScreenExtents(r, dbb).tmp_left, top |-> ScreenExtents(r, dbb).tmp_top,
     xmin |-> r.x + r.bb_offset_x, xmax |-> r.x + Max2(r.bb_offset_x, r.w),
     ymin |-> r.y + r.bb_offset_y, ymax |-> r.y + Max2(r.bb_offset_y, r.h),
     zmin |-> r.z + r.bb_offset_z, zmax |-> r.z + Max2(r.bb_offset_z, r.dz),
     first_child |-> -1]

\* (as if the upper ends were position + extent - 1)
NewParentSpriteExtentOnly(r, dbb) ==
    [image |-> r.image,
     x |-> r.pt.x, y |-> r.pt.y,
     left |-> ScreenExtents(r, dbb).tmp_left, top |-> ScreenExtents(r, dbb).tmp_top,
     xmin |-> r.x + r.bb_offset_x, xmax |-> r.x + r.w - 1,
     ymin |-> r.y + r.bb_offset_y, ymax |-> r.y + r.h - 1,
     zmin |-> r.z + r.bb_offset_z, zmax |-> r.z + r.dz - 1,
     first_child |-> -1]

\* Lines 755-775: the record of the new parent.
NewParentSprite(r, dbb) ==
    [image |-> r.image,
     x |-> r.pt.x, y |-> r.pt.y,
     left |-> ScreenExtents(r, dbb).tmp_left, top |-> ScreenExtents(r, dbb).tmp_top,
     xmin |-> r.x + r.bb_offset_x, xmax |-> r.x + Max2(r.bb_offset_x, r.w) - 1,
     ymin |-> r.y + r.bb_offset_y, ymax |-> r.y + Max2(r.bb_offset_y, r.h) - 1,
     zmin |-> r.z + r.bb_offset_z, zmax |-> r.z + Max2(r.bb_offset_z, r.dz) - 1,
     first_child |-> -1]

LastChildKept(v) == v

\* Line 720.
LastChildReset(v) == [v EXCEPT !.last_child = NullPtr]

\* (as if line 777 did not make the new parent the attachment point)
AddSortableSpriteToDrawNoAttach(v, r, dbb) ==
    IF v.combine_sprites = SPRITE_COMBINE_ACTIVE THEN AddCombinedSprite(v, r)
    ELSE LET v0 == LastChildReset(v) IN
         IF SortableClipped(v0, r, dbb) THEN {v0}
         ELSE LET v1 == ParentEmplaceBack(v0, NewParentSprite(r, dbb)) IN
              {[v1 EXCEPT
                  !.combine_sprites =
                      IF @ = SPRITE_COMBINE_PENDING THEN SPRITE_COMBINE_ACTIVE ELSE @]}

\* (as if line 779 came before the clip test of lines 748-753)
AddSortableSpriteToDrawEager(v, r, dbb) ==
    IF v.combine_sprites = SPRITE_COMBINE_ACTIVE THEN AddCombinedSprite(v, r)
    ELSE LET v0 == [LastChildReset(v) EXCEPT
                        !.combine_sprites =
                            IF @ = SPRITE_COMBINE_PENDING THEN SPRITE_COMBINE_ACTIVE ELSE @]
         IN  IF SortableClipped(v0, r, dbb) THEN {v0}
             ELSE LET v1 == ParentEmplaceBack(v0, NewParentSprite(r, dbb)) IN
                  {[v1 EXCEPT
                      !.last_child = FirstChildPtr(v1, Len(v1.parent_sprites_to_draw) - 1)]}

AddSortableSpriteToDraw(v, r, dbb) ==
    IF v.combine_sprites = SPRITE_COMBINE_ACTIVE THEN AddCombinedSprite(v, r)
    ELSE LET v0 == LastChildReset(v) IN
         IF SortableClipped(v0, r, dbb) THEN {v0}
         ELSE LET v1 == ParentEmplaceBack(v0, NewParentSprite(r, dbb)) IN
              {[v1 EXCEPT
                  !.last_child = FirstChildPtr(v1, Len(v1.parent_sprites_to_draw) - 1),
                  !.combine_sprites =
                      IF @ = SPRITE_COMBINE_PENDING THEN SPRITE_COMBINE_ACTIVE ELSE @]}

StartSpriteCombineActive(v, nd) ==
    IF AssertFails(nd, v.combine_sprites = SPRITE_COMBINE_NONE)
    THEN {Aborted(v, "assert")}
    ELSE {[v EXCEPT !.combine_sprites = SPRITE_COMBINE_ACTIVE]}

StartSpriteCombine(v, nd) ==
    IF AssertFails(nd, v.combine_sprites = SPRITE_COMBINE_NONE)
    THEN {Aborted(v, "assert")}
    ELSE {[v EXCEPT !.combine_sprites = SPRITE_COMBINE_PENDING]}

EndSpriteCombineUnchecked(v, nd) == {[v EXCEPT !.combine_sprites = SPRITE_COMBINE_NONE]}

EndSpriteCombine(v, nd) ==
    IF AssertFails(nd, v.combine_sprites # SPRITE_COMBINE_NONE)
    THEN {Aborted(v, "assert")}
    ELSE {[v EXCEPT !.combine_sprites = SPRITE_COMBINE_NONE]}

\* Lines 565-579.  Without the assert of line 567 a part that is no index of
\* the per-part arrays makes lines 568-573 read past their end.
AddChildSpriteToFoundation(v, nd, image, foundation_part, extra_offs_x, extra_offs_y) ==
    IF AssertFails(nd, foundation_part \in FoundationParts) THEN {Aborted(v, "assert")}
    ELSE IF foundation_part \notin FoundationParts
    THEN {[v EXCEPT !.ub = TRUE], [v EXCEPT !.abort = "fault"]}
    ELSE IF AssertFails(nd, v.foundation[foundation_part] # -1) THEN {Aborted(v, "assert")}
    ELSE LET offs == v.foundation_offset[foundation_part]
             old_child == v.last_child
             v1 == [v EXCEPT !.last_child = v.last_foundation_child[foundation_part]]
         IN  {IF w.abort # "none" THEN w ELSE [w EXCEPT !.last_child = old_child] :
                w \in AddChildSpriteScreen(v1, image, offs.x + extra_offs_x,
                                           offs.y + extra_offs_y, FALSE)}

\* g is one call of DrawGroundSpriteAt: g.pt is RemapCoords(x, y, z) of the
\* position relative to the tile, g.tile_pt RemapCoords of _cur_ti + (x, y, z).
DrawGroundSpriteAt(v, nd, g) ==
    LET v1 == IF v.foundation_part = FOUNDATION_PART_NONE
              THEN [v EXCEPT !.foundation_part = FOUNDATION_PART_NORMAL] ELSE v
    IN  IF v1.foundation[v1.foundation_part] # -1
        THEN AddChildSpriteToFoundation(v1, nd, g.image, v1.foundation_part,
                                        g.pt.x + g.extra_offs_x * ZOOM_LVL_BASE,
                                        g.pt.y + g.extra_offs_y * ZOOM_LVL_BASE)
        ELSE {AddTileSpriteToDraw(v1, g.image, g.tile_pt,
                                  Point(g.extra_offs_x * ZOOM_LVL_BASE,
                                        g.extra_offs_y * ZOOM_LVL_BASE))}

\* (as if the switch of lines 632-640 had no default case)
OffsetGroundSpriteUnchecked(v, x, y) ==
    LET part == IF v.foundation_part = FOUNDATION_PART_NONE
                THEN FOUNDATION_PART_NORMAL ELSE FOUNDATION_PART_HALFTILE
    IN  {[v EXCEPT
            !.foundation_part = part,
            !.foundation[part] =
                IF v.last_child # NullPtr THEN Len(v.parent_sprites_to_draw) - 1 ELSE @,
            !.foundation_offset[part] = Point(x * ZOOM_LVL_BASE, y * ZOOM_LVL_BASE),
            !.last_foundation_child[part] = v.last_child]}

OffsetGroundSprite(v, x, y) ==
    IF v.foundation_part = FOUNDATION_PART_HALFTILE THEN {Aborted(v, "not_reached")}
    ELSE LET part == IF v.foundation_part = FOUNDATION_PART_NONE
                     THEN FOUNDATION_PART_NORMAL ELSE FOUNDATION_PART_HALFTILE
         IN  {[v EXCEPT
                 !.foundation_part = part,
                 !.foundation[part] =
                     IF v.last_child # NullPtr THEN Len(v.parent_sprites_to_draw) - 1 ELSE @,
                 !.foundation_offset[part] = Point(x * ZOOM_LVL_BASE, y * ZOOM_LVL_BASE),
                 !.last_foundation_child[part] = v.last_child]}

(***************************************************************************)
(* The calls a region draw makes.                                          *)
(***************************************************************************)
\* The clip rectangle of the region.
RegionDpi == [left |-> 0, top |-> 0, width |-> 64, height |-> 64]

SortableCall(image, pos, ext, bb_offset, pt, bb, spr) ==
    [image |-> image, x |-> pos[1], y |-> pos[2], z |-> pos[3],
     w |-> ext[1], h |-> ext[2], dz |-> ext[3],
     bb_offset_x |-> bb_offset[1], bb_offset_y |-> bb_offset[2], bb_offset_z |-> bb_offset[3],
     pt |-> Point(pt[1], pt[2]),
     bb |-> [left |-> bb[1], right |-> bb[2], top |-> bb[3], bottom |-> bb[4]],
     spr |-> [x_offs |-> spr[1], y_offs |-> spr[2], width |-> spr[3], height |-> spr[4]]]

\* Sprite and bounding box on screen.
CallVisible == SortableCall("A", <<0, 0, 0>>, <<1, 1, 1>>, <<0, 0, 0>>,
                             <<0, 0>>, <<-8, 8, -4, 8>>, <<-4, -4, 8, 8>>)
\* Sprite and bounding box off screen.
CallFar == SortableCall("F", <<0, 100, 0>>, <<1, 1, 1>>, <<0, 0, 0>>,
                        <<800, 400>>, <<792, 808, 396, 408>>, <<-4, -4, 8, 8>>)
\* Bounding box off screen, the sprite reaches into the clip rectangle.
CallWide == SortableCall("W", <<0, 10, 0>>, <<1, 1, 1>>, <<0, 0, 0>>,
                         <<80, 40>>, <<72, 88, 36, 48>>, <<-40, -8, 16, 8>>)
\* Bounding box on screen, the sprite is drawn off screen.
CallHidden == SortableCall("H", <<0, 0, 0>>, <<1, 1, 1>>, <<0, 0, 0>>,
                           <<0, 0>>, <<-8, 8, -4, 8>>, <<100, 0, 8, 8>>)
\* The sprite without pixels that only carries a bounding box.
CallEmptyBox == SortableCall(SPR_EMPTY_BOUNDING_BOX, <<0, 1, 0>>, <<1, 1, 1>>, <<0, 0, 0>>,
                             <<8, 4>>, <<0, 16, 0, 12>>, <<0, 0, 1, 1>>)

SortableCalls == {CallVisible, CallFar, CallWide, CallHidden, CallEmptyBox}

ChildCall == [image |-> "K", x |-> 3, y |-> 5, scale |-> FALSE]

GroundCall == [image |-> "G", pt |-> Point(0, 0), tile_pt |-> Point(32, 16),
               extra_offs_x |-> 0, extra_offs_y |-> 0]

OffsetCall == [x |-> 2, y |-> 1]

NoArg == [image |-> "none"]

(***************************************************************************)
(* ViewportDrawChk: the requested rectangle is cut until every piece is    *)
(* small enough for one ViewportDoDraw.                                    *)
(***************************************************************************)
MaxZoom == 3

\* value << zoom.
ScaleByZoom(value, zoom) == value * 2^zoom

\* Line 1842: the right-hand side of the comparison.
SpriteMemoryLimit == 180000 * ZOOM_LVL_BASE * ZOOM_LVL_BASE

TooBigUnscaled(vp, r) ==
    (r.bottom - r.top) * (r.right - r.left) > SpriteMemoryLimit

\* Line 1842.  The product is made in int64 and cannot wrap.
TooBig(vp, r) ==
    ScaleByZoom(r.bottom - r.top, vp.zoom) * ScaleByZoom(r.right - r.left, vp.zoom)
        > SpriteMemoryLimit

\* Line 1843.
SplitRows(r) == (r.bottom - r.top) > (r.right - r.left)

\* n >> 1.
Half(n) == n \div 2

\* Lines 1844-1846 and 1848-1850: the two recursive calls, in call order.
Halves(r) ==
    IF SplitRows(r)
    THEN LET t == Half(r.top + r.bottom) IN
         <<[r EXCEPT !.bottom = t], [r EXCEPT !.top = t]>>
    ELSE LET t == Half(r.left + r.right) IN
         <<[r EXCEPT !.right = t], [r EXCEPT !.left = t]>>

\* Lines 1853-1858: the arguments of ViewportDoDraw for the piece r.
DoDrawArgs(vp, r) ==
    [left |-> ScaleByZoom(r.left - vp.left, vp.zoom) + vp.virtual_left,
     top |-> ScaleByZoom(r.top - vp.top, vp.zoom) + vp.virtual_top,
     right |-> ScaleByZoom(r.right - vp.left, vp.zoom) + vp.virtual_left,
     bottom |-> ScaleByZoom(r.bottom - vp.top, vp.zoom) + vp.virtual_top]

\* The viewports and the rectangles ViewportDraw asks for.
ViewPorts ==
    {[zoom |-> z, left |-> 2, top |-> 1, virtual_left |-> 640, virtual_top |-> 320] :
        z \in 0..MaxZoom}

ChkSides == {0, 1, 212, 424, 425, 848, 849, 1273}

ChkRequests ==
    {[left |-> l, top |-> t, right |-> l + w, bottom |-> t + h] :
        l \in {2, 7}, t \in {1, 4}, w \in ChkSides, h \in ChkSides}

\* No ViewportDrawChk is running.
ChkIdle ==
    chk = [vp |-> [zoom |-> 0, left |-> 0, top |-> 0, virtual_left |-> 0, virtual_top |-> 0],
           request |-> [left |-> 0, top |-> 0, right |-> 0, bottom |-> 0],
           pending |-> <<>>, cut |-> <<>>, drawn |-> <<>>]

\* The accumulator while the sorter runs, and the sorter while the
\* accumulator runs.
AccIdle ==
    /\ vd = NewViewportDrawer(RegionDpi, 0)
    /\ log = <<>>
    /\ ndebug = FALSE
    /\ draw_bounding_boxes = FALSE
    /\ drawlog = <<>>
    /\ region = 1

SortIdle ==
    /\ boxes = <<>>
    /\ srt = SortUntouched(<<>>)
    /\ pc = "accumulate"

(***************************************************************************)
(* The run of the sorter as a state machine.                               *)
(***************************************************************************)
InputsOf(B) == UNION {[1..n -> B] : n \in 0..MaxSprites}

SmallSortInputs == InputsOf(ThinBoxes) \cup InputsOf(StackBoxes) \cup {ScenarioInput}

SortInputs == InputsOf(TallBoxes) \cup SmallSortInputs

SortInitState ==
    /\ boxes \in SortInputs
    /\ srt = SortUntouched(boxes)
    /\ pc = "start"
    /\ AccIdle
    /\ ChkIdle

\* Line 1556 and lines 1565-1583.
SortStart ==
    /\ pc = "start"
    /\ IF Len(boxes) < 2
       THEN srt' = srt /\ pc' = "done"
       ELSE srt' = SortInit(boxes) /\ pc' = "loop"
    /\ UNCHANGED <<boxes, accVars, chk>>

SortPopReturned ==
    /\ pc = "loop" /\ srt.sprite_order # <<>>
    /\ srt.order[Top(srt)] = ORDER_RETURNED
    /\ srt' = IterReturned(srt)
    /\ UNCHANGED <<boxes, pc, accVars, chk>>

SortPopCompared ==
    /\ pc = "loop" /\ srt.sprite_order # <<>>
    /\ srt.order[Top(srt)] = ORDER_COMPARED
    /\ srt' = IterCompared(srt)
    /\ UNCHANGED <<boxes, pc, accVars, chk>>

SortScanEmpty ==
    /\ pc = "loop" /\ NeedsScan(srt)
    /\ LET sc == Scan(boxes, srt, Top(srt)) IN
        /\ sc.preceding = <<>>
        /\ srt' = IterEmpty(srt, sc)
    /\ UNCHANGED <<boxes, pc, accVars, chk>>

SortScanFast ==
    /\ pc = "loop" /\ NeedsScan(srt)
    /\ LET sc == Scan(boxes, srt, Top(srt)) IN
        /\ TakesFastPath(boxes, srt, sc)
        /\ srt' = IterFast(srt, sc)
    /\ UNCHANGED <<boxes, pc, accVars, chk>>

SortScanGeneral ==
    /\ pc = "loop" /\ NeedsScan(srt)
    /\ LET sc == Scan(boxes, srt, Top(srt)) IN
        /\ sc.preceding # <<>>
        /\ ~TakesFastPath(boxes, srt, sc)
        /\ \E q \in SortedByOrder(srt.order, sc.preceding) : srt' = IterGeneral(srt, sc, q)
    /\ UNCHANGED <<boxes, pc, accVars, chk>>

\* Line 1585: the stack is empty, the function returns.
SortFinish ==
    /\ pc = "loop" /\ srt.sprite_order = <<>>
    /\ pc' = "done"
    /\ UNCHANGED <<boxes, srt, accVars, chk>>

SortNext ==
    \/ SortStart
    \/ SortPopReturned
    \/ SortPopCompared
    \/ SortScanEmpty
    \/ SortScanFast
    \/ SortScanGeneral
    \/ SortFinish

SpecSort == SortInitState /\ [][SortNext]_vars

\* The loop is the body of one synchronous call: it keeps running. The runs
\* start from the inputs with coordinates up to MaxThin.
FairSortInitState ==
    /\ boxes \in SmallSortInputs
    /\ srt = SortUntouched(boxes)
    /\ pc = "start"
    /\ AccIdle
    /\ ChkIdle

FairSpecSort == FairSortInitState /\ [][SortNext]_vars /\ WF_vars(SortNext)

(***************************************************************************)
(* The accumulation phase of a region draw as a state machine: the draw    *)
(* callbacks call the operations in any order.  log keeps, for every call  *)
(* made so far, the operation, its argument and _vd before the call.       *)
(***************************************************************************)
\* Storage the vectors keep from earlier region draws: none, or enough for
\* every call of this region.
StorageChoices == {0, MaxCalls}

Init ==
    /\ \E cap \in StorageChoices : vd = NewViewportDrawer(RegionDpi, cap)
    /\ log = <<>>
    /\ ndebug \in BOOLEAN
    /\ draw_bounding_boxes \in BOOLEAN
    /\ drawlog = <<>>
    /\ region = 1
    /\ SortIdle
    /\ ChkIdle

\* A call can be made: the process has not ended.
CanCall ==
    /\ pc = "accumulate"
    /\ vd.abort = "none"
    /\ Len(log) < MaxCalls

Logged(op, arg) == Append(log, [op |-> op, arg |-> arg, before |-> vd])

\* ViewportAddLandscape reaches the next visible tile.
TileBegin ==
    /\ CanCall
    /\ vd' = TileReset(vd)
    /\ log' = Logged("TileBegin", NoArg)
    /\ UNCHANGED <<ndebug, draw_bounding_boxes, drawlog, region, sortVars, chk>>

AddSortable ==
    /\ CanCall
    /\ \E r \in SortableCalls :
        /\ vd' \in AddSortableSpriteToDraw(vd, r, draw_bounding_boxes)
        /\ log' = Logged("AddSortableSpriteToDraw", r)
    /\ UNCHANGED <<ndebug, draw_bounding_boxes, drawlog, region, sortVars, chk>>

AddChild ==
    /\ CanCall
    /\ vd' \in AddChildSpriteScreen(vd, ChildCall.image, ChildCall.x, ChildCall.y, ChildCall.scale)
    /\ log' = Logged("AddChildSpriteScreen", ChildCall)
    /\ UNCHANGED <<ndebug, draw_bounding_boxes, drawlog, region, sortVars, chk>>

StartCombine ==
    /\ CanCall
    /\ vd' \in StartSpriteCombine(vd, ndebug)
    /\ log' = Logged("StartSpriteCombine", NoArg)
    /\ UNCHANGED <<ndebug, draw_bounding_boxes, drawlog, region, sortVars, chk>>

EndCombine ==
    /\ CanCall
    /\ vd' \in EndSpriteCombine(vd, ndebug)
    /\ log' = Logged("EndSpriteCombine", NoArg)
    /\ UNCHANGED <<ndebug, draw_bounding_boxes, drawlog, region, sortVars, chk>>

OffsetGround ==
    /\ CanCall
    /\ vd' \in OffsetGroundSprite(vd, OffsetCall.x, OffsetCall.y)
    /\ log' = Logged("OffsetGroundSprite", OffsetCall)
    /\ UNCHANGED <<ndebug, draw_bounding_boxes, drawlog, region, sortVars, chk>>

DrawGround ==
    /\ CanCall
    /\ vd' \in DrawGroundSpriteAt(vd, ndebug, GroundCall)
    /\ log' = Logged("DrawGroundSpriteAt", GroundCall)
    /\ UNCHANGED <<ndebug, draw_bounding_boxes, drawlog, region, sortVars, chk>>

Next ==
    \/ TileBegin
    \/ AddSortable
    \/ AddChild
    \/ StartCombine
    \/ EndCombine
    \/ OffsetGround
    \/ DrawGround

Spec == Init /\ [][Next]_vars

(***************************************************************************)
(* Vocabulary of the properties of the sorter.                             *)
(***************************************************************************)
SpriteIds == 1..Len(boxes)

\* Sprite a is written to the output before sprite b.
OutBefore(a, b) ==
    \E i, j \in 1..Len(srt.psdv) : i < j /\ srt.psdv[i] = a /\ srt.psdv[j] = b

\* Comparable: the boxes overlap on all three axes.
Comparable(p, s) == Overlap(p, s) /\ Overlap(s, p)

\* The output holds every input sprite exactly once.
IsPermutation ==
    /\ Len(srt.psdv) = Len(boxes)
    /\ \A id \in SpriteIds : Cardinality({i \in 1..Len(srt.psdv) : srt.psdv[i] = id}) = 1
    /\ ~srt.overrun

\* The precedence relation of the scan has a cycle among the input sprites:
\* some sprite reaches itself along IsPreceding edges.
RECURSIVE ReachSet(_, _)
ReachSet(from, n) ==
    IF n = 0 THEN from
    ELSE ReachSet(from \cup {t \in SpriteIds : \E f \in from : f # t /\ IsPreceding(boxes[f], boxes[t])}, n - 1)

Successors(a) == {t \in SpriteIds : t # a /\ IsPreceding(boxes[a], boxes[t])}

Cyclic == \E a \in SpriteIds : a \in ReachSet(Successors(a), Len(boxes))

\* C1: when the sorter returns, psdv holds each of the N input sprites exactly
\* once (N = 0, 1 and more, cyclic precedence included), and no write went
\* past its end.
C1_Permutation == pc = "done" => IsPermutation

C1_Witness ==
    /\ pc = "done" /\ Len(boxes) = 3 /\ Cyclic
    /\ srt.psdv # <<1, 2, 3>> /\ srt.out = 3

\* C2 as stated: for any input, comparable p and s with sum(p) < sum(s) are
\* output with p before s.
C2_AnyInput ==
    pc = "done" =>
        \A p, s \in SpriteIds :
            (Comparable(boxes[p], boxes[s]) /\ BoxSum(boxes[p]) < BoxSum(boxes[s]))
                => OutBefore(p, s)

\* C4: every run of the sorter reaches its return with an empty stack and
\* every sprite written, cyclic inputs included.
SortReturned ==
    /\ pc = "done"
    /\ srt.sprite_order = <<>>
    /\ Len(boxes) >= 2 => srt.out = Len(boxes)

C4_Terminates == <>SortReturned

C4_Witness ==
    /\ SortReturned /\ Len(boxes) = 3 /\ Cyclic
    /\ \A id \in SpriteIds : srt.order[id] = ORDER_RETURNED

\* No box of the input is a thin slice: min <= max on every axis.
ProperBox(b) == b.xmin <= b.xmax /\ b.ymin <= b.ymax /\ b.zmin <= b.zmax

NoComparablePair ==
    \A a, b \in SpriteIds : a # b => ~Comparable(boxes[a], boxes[b])

IdentityOrder == srt.psdv = [i \in 1..Len(boxes) |-> i]

\* C3 as stated: without any comparable pair the output order is the
\* insertion order.
C3_DisjointStable == (pc = "done" /\ NoComparablePair) => IdentityOrder

\* p starts at or below the end of s on all three axes.
StartsWithin(p, s) == p.xmin <= s.xmax /\ p.ymin <= s.ymax /\ p.zmin <= s.zmax

\* C3, amended: without any comparable pair, and with no sprite starting at
\* or below the end of an earlier inserted sprite on all three axes, the
\* output order is the insertion order.
C3_Amended ==
    (/\ pc = "done"
     /\ NoComparablePair
     /\ \A a, b \in SpriteIds : a < b => ~StartsWithin(boxes[b], boxes[a]))
        => IdentityOrder

C3_Witness ==
    /\ pc = "done" /\ Len(boxes) = 3 /\ srt.out = 3
    /\ NoComparablePair
    /\ \A a, b \in SpriteIds : a < b => ~StartsWithin(boxes[b], boxes[a])
    /\ \E a, b \in SpriteIds : a < b /\ StartsWithin(boxes[a], boxes[b])

\* The input is a z stack: one x/y footprint, z ranges that do not overlap.
SameFootprint ==
    \A a, b \in SpriteIds :
        /\ boxes[a].xmin = boxes[b].xmin /\ boxes[a].xmax = boxes[b].xmax
        /\ boxes[a].ymin = boxes[b].ymin /\ boxes[a].ymax = boxes[b].ymax

DisjointZ ==
    \A a, b \in SpriteIds :
        a # b => ~(boxes[a].zmin <= boxes[b].zmax /\ boxes[b].zmin <= boxes[a].zmax)

IncreasingZ ==
    \A i, j \in 1..Len(srt.psdv) :
        i < j => boxes[srt.psdv[i]].zmax < boxes[srt.psdv[j]].zmin

\* C5 as stated: a z stack is output in strictly increasing z.
C5_ZStack == (pc = "done" /\ SameFootprint /\ DisjointZ) => IncreasingZ

\* C5, amended: a z stack of boxes with min <= max on every axis is output
\* in strictly increasing z, whatever the insertion order.
C5_Amended ==
    (pc = "done" /\ SameFootprint /\ DisjointZ /\ \A a \in SpriteIds : ProperBox(boxes[a]))
        => IncreasingZ

C5_Witness ==
    /\ pc = "done" /\ Len(boxes) = 3 /\ srt.out = 3
    /\ SameFootprint /\ DisjointZ /\ \A a \in SpriteIds : ProperBox(boxes[a])
    /\ boxes[3].zmax < boxes[2].zmin /\ boxes[2].zmax < boxes[1].zmin
    /\ srt.psdv = <<3, 2, 1>>

\* b is apart from a on the x axis.
ApartInX(a, b) == ~(a.xmin <= b.xmax /\ b.xmin <= a.xmax)

\* C6: inserted as A, B, C with A and B comparable, sum(A) < sum(B) and C
\* apart from both on the x axis, the output is a permutation with A before B.
C6_Scenario ==
    (/\ pc = "done" /\ Len(boxes) = 3
     /\ Comparable(boxes[1], boxes[2]) /\ BoxSum(boxes[1]) < BoxSum(boxes[2])
     /\ ApartInX(boxes[1], boxes[3]) /\ ApartInX(boxes[2], boxes[3]))
        => (IsPermutation /\ OutBefore(1, 2))

C6_Witness ==
    /\ pc = "done" /\ boxes = ScenarioInput
    /\ srt.out = 3 /\ OutBefore(1, 2)

\* C7: the output is a function of the input list: every run on the same
\* boxes in the same insertion order ends with the same vector.
C7_Deterministic == pc = "done" => srt.psdv = SortResult(boxes)

C7_Witness ==
    /\ pc = "done" /\ Len(boxes) = 3 /\ Cyclic
    /\ srt.psdv = SortResult(boxes) /\ srt.psdv # <<1, 2, 3>>

(***************************************************************************)
(* Vocabulary of the properties of the accumulator.                        *)
(***************************************************************************)
\* _vd before and after the k-th call of the region draw.
Before(k) == log[k].before

After(k) == IF k < Len(log) THEN log[k + 1].before ELSE vd

\* The children met by following next links from child index c, at most
\* fuel of them.
RECURSIVE ChainFrom(_, _, _)
ChainFrom(v, c, fuel) ==
    IF c = -1 \/ fuel = 0 THEN <<>>
    ELSE <<c>> \o ChainFrom(v, v.child_screen_sprites_to_draw[c + 1].next, fuel - 1)

\* The chain of the p-th stored parent.
Chain(v, p) ==
    ChainFrom(v, v.parent_sprites_to_draw[p].first_child,
              Len(v.child_screen_sprites_to_draw) + 1)

\* Following next links ends at the sentinel and meets no child twice.
EndsWithoutRevisit(v, p) ==
    /\ Len(Chain(v, p)) <= Len(v.child_screen_sprites_to_draw)
    /\ \A i, j \in 1..Len(Chain(v, p)) : i # j => Chain(v, p)[i] # Chain(v, p)[j]

ChildAt(v, c) == v.child_screen_sprites_to_draw[c + 1]

OpsFrom(k, ops) ==
    /\ k + Len(ops) - 1 <= Len(log)
    /\ \A i \in 1..Len(ops) : log[k + i - 1].op = ops[i]

\* Calls k .. k+4 are StartSpriteCombine, three AddSortableSpriteToDraw and
\* EndSpriteCombine.
CombineBlockAt(k) ==
    OpsFrom(k, <<"StartSpriteCombine", "AddSortableSpriteToDraw", "AddSortableSpriteToDraw",
                 "AddSortableSpriteToDraw", "EndSpriteCombine">>)

\* The first sprite of the block passes the clip test of a parent.
FirstSurvives(k) == ~SortableClipped(Before(k + 1), log[k + 1].arg, draw_bounding_boxes)

\* The second and third sprite pass the clip test of a combined sprite.
RestSurvive(k) ==
    /\ ~CombinedClipped(Before(k + 2), log[k + 2].arg)
    /\ ~CombinedClipped(Before(k + 3), log[k + 3].arg)

\* One more parent, the first sprite, and its chain is the second and the
\* third sprite at their offsets from the parent's left/top corner.
OneParentTwoChildren(k) ==
    LET s0 == Before(k)
        s5 == After(k + 4)
        a == log[k + 1].arg
        b == log[k + 2].arg
        c == log[k + 3].arg
        n == Len(s0.parent_sprites_to_draw)
        org == ScreenExtents(a, draw_bounding_boxes)
    IN  /\ Len(s5.parent_sprites_to_draw) = n + 1
        /\ SubSeq(s5.parent_sprites_to_draw, 1, n) = s0.parent_sprites_to_draw
        /\ s5.parent_sprites_to_draw[n + 1].image = a.image
        /\ Len(s5.child_screen_sprites_to_draw) = Len(s0.child_screen_sprites_to_draw) + 2
        /\ LET ch == Chain(s5, n + 1) IN
            /\ Len(ch) = 2
            /\ ChildAt(s5, ch[1]).image = b.image
            /\ ChildAt(s5, ch[1]).x = b.pt.x - org.tmp_left
            /\ ChildAt(s5, ch[1]).y = b.pt.y - org.tmp_top
            /\ ChildAt(s5, ch[2]).image = c.image
            /\ ChildAt(s5, ch[2]).x = c.pt.x - org.tmp_left
            /\ ChildAt(s5, ch[2]).y = c.pt.y - org.tmp_top
        /\ s5.combine_sprites = SPRITE_COMBINE_NONE

(***************************************************************************)
(* C8: StartCombine; three AddDepthSortableSprite calls A, B, C;           *)
(* EndCombine, with A surviving the clip test, stores exactly one parent   *)
(* (A) whose chain is B then C at their offsets from A's origin, and       *)
(* leaves the combine state NONE.                                          *)
(***************************************************************************)
C8_CombineBlock ==
    \A k \in 1..Len(log) : (CombineBlockAt(k) /\ FirstSurvives(k)) => OneParentTwoChildren(k)

\* C8 as the code has it: B and C are stored only if they too pass the clip
\* test that AddCombinedSprite makes on their own sprite rectangle.
C8_Amended ==
    \A k \in 1..Len(log) :
        (CombineBlockAt(k) /\ FirstSurvives(k) /\ RestSurvive(k)) => OneParentTwoChildren(k)

\* A completed block of three surviving sprites, the two children distinct.
C8_Witness ==
    \E k \in 1..Len(log) :
        /\ CombineBlockAt(k) /\ FirstSurvives(k) /\ RestSurvive(k)
        /\ log[k + 2].arg # log[k + 3].arg
        /\ OneParentTwoChildren(k)

\* Call k is AddSortableSpriteToDraw made with the combine state NONE, and
\* every later call is AddChildSpriteScreen.
AddThenChildren(k) ==
    /\ log[k].op = "AddSortableSpriteToDraw"
    /\ Before(k).combine_sprites = SPRITE_COMBINE_NONE
    /\ \A j \in (k + 1)..Len(log) : log[j].op = "AddChildSpriteScreen"

\* The projected bounding box of the call misses the clip rectangle.
BoundingVolumeOutside(v, r) ==
    Outside(v.dpi, r.bb.left, r.bb.right + 1, r.bb.top, r.bb.bottom + 1)

NothingStoredSince(k) ==
    /\ Len(vd.parent_sprites_to_draw) = Len(Before(k).parent_sprites_to_draw)
    /\ Len(vd.child_screen_sprites_to_draw) = Len(Before(k).child_screen_sprites_to_draw)

(***************************************************************************)
(* C9: with the combine state NONE, AddDepthSortableSprite whose bounding  *)
(* volume lies entirely outside the clip rectangle, followed by any number *)
(* of AddChildSprite calls, stores no parent and no child.                 *)
(***************************************************************************)
C9_ClippedParentDrop ==
    \A k \in 1..Len(log) :
        (AddThenChildren(k) /\ BoundingVolumeOutside(Before(k), log[k].arg))
            => NothingStoredSince(k)

\* C9 as the code has it: the call is dropped when the extents its clip test
\* looks at (lines 725-753) miss the clip rectangle.
C9_Amended ==
    \A k \in 1..Len(log) :
        (AddThenChildren(k) /\ SortableClipped(Before(k), log[k].arg, draw_bounding_boxes))
            => NothingStoredSince(k)

\* A clipped call made while an earlier parent was the attachment point,
\* followed by two AddChildSpriteScreen calls.
C9_Witness ==
    \E k \in 1..Len(log) :
        /\ AddThenChildren(k)
        /\ SortableClipped(Before(k), log[k].arg, draw_bounding_boxes)
        /\ Before(k).last_child # NullPtr
        /\ Len(log) >= k + 2
        /\ NothingStoredSince(k)

(***************************************************************************)
(* C10: after any sequence of accumulator calls, every child that was      *)
(* linked into a parent's chain is still reachable from that parent's      *)
(* first_child, and following next links from any first_child reaches the  *)
(* end sentinel without revisiting a child.                                *)
(***************************************************************************)
C10_ChainsAppendOnly ==
    /\ \A k \in 1..Len(log) : \A p \in 1..Len(Before(k).parent_sprites_to_draw) :
            Range(Chain(Before(k), p)) \subseteq Range(Chain(vd, p))
    /\ \A p \in 1..Len(vd.parent_sprites_to_draw) : EndsWithoutRevisit(vd, p)

(***************************************************************************)
(* One call of AddSortableSpriteToDraw on the fresh accumulator, over      *)
(* every extent in 0..MaxExtent and every bounding box offset in           *)
(* -1..MaxOffset, for a sprite that is on screen.                          *)
(***************************************************************************)
BoxCalls ==
    {[CallVisible EXCEPT !.w = e[1], !.h = e[2], !.dz = e[3],
                         !.bb_offset_x = o[1], !.bb_offset_y = o[2], !.bb_offset_z = o[3]] :
        e \in (0..MaxExtent) \X (0..MaxExtent) \X (0..MaxExtent),
        o \in (-1..MaxOffset) \X (-1..MaxOffset) \X (-1..MaxOffset)}

AddSortableBox ==
    /\ pc = "accumulate"
    /\ log = <<>>
    /\ \E r \in BoxCalls :
        /\ vd' \in AddSortableSpriteToDraw(vd, r, draw_bounding_boxes)
        /\ log' = Logged("AddSortableSpriteToDraw", r)
    /\ UNCHANGED <<ndebug, draw_bounding_boxes, drawlog, region, sortVars, chk>>

SpecBox == Init /\ [][AddSortableBox]_vars

\* Call k stored a parent: the last parent after the call.
StoredParent(k) ==
    /\ log[k].op = "AddSortableSpriteToDraw"
    /\ Len(After(k).parent_sprites_to_draw) = Len(Before(k).parent_sprites_to_draw) + 1

ParentOf(k) == After(k).parent_sprites_to_draw[Len(After(k).parent_sprites_to_draw)]

CombineBefore(k) == Before(k).combine_sprites

CombineAfter(k) == After(k).combine_sprites

\* Call k is StartSpriteCombine made inside a combine block.
NestedStart(k) == log[k].op = "StartSpriteCombine" /\ CombineBefore(k) # SPRITE_COMBINE_NONE

(***************************************************************************)
(* C12: once the combine state is PENDING it changes only from PENDING to  *)
(* ACTIVE, on an AddDepthSortableSprite that survives clipping, and from   *)
(* ACTIVE to NONE, on EndCombine; no StartCombine takes effect inside a    *)
(* block.                                                                  *)
(***************************************************************************)
C12_CombineTransitions ==
    \A k \in 1..Len(log) :
        /\ (CombineBefore(k) # SPRITE_COMBINE_NONE /\ CombineAfter(k) # CombineBefore(k)) =>
            \/ /\ CombineBefore(k) = SPRITE_COMBINE_PENDING
               /\ CombineAfter(k) = SPRITE_COMBINE_ACTIVE
               /\ StoredParent(k)
            \/ /\ CombineBefore(k) = SPRITE_COMBINE_ACTIVE
               /\ CombineAfter(k) = SPRITE_COMBINE_NONE
               /\ log[k].op = "EndSpriteCombine"
        /\ NestedStart(k) => After(k).abort = "assert"

\* C12 as the code has it: EndSpriteCombine also takes PENDING to NONE, and
\* a StartSpriteCombine inside a block ends the process where assert is
\* compiled in and sets PENDING again where it is not.
C12_Amended ==
    \A k \in 1..Len(log) :
        /\ (CombineBefore(k) = SPRITE_COMBINE_NONE /\ CombineAfter(k) # CombineBefore(k)) =>
            /\ CombineAfter(k) = SPRITE_COMBINE_PENDING
            /\ log[k].op = "StartSpriteCombine"
        /\ (CombineBefore(k) # SPRITE_COMBINE_NONE /\ CombineAfter(k) # CombineBefore(k)) =>
            \/ /\ CombineBefore(k) = SPRITE_COMBINE_PENDING
               /\ CombineAfter(k) = SPRITE_COMBINE_ACTIVE
               /\ StoredParent(k)
            \/ /\ CombineAfter(k) = SPRITE_COMBINE_NONE
               /\ log[k].op = "EndSpriteCombine"
            \/ /\ ndebug
               /\ CombineBefore(k) = SPRITE_COMBINE_ACTIVE
               /\ CombineAfter(k) = SPRITE_COMBINE_PENDING
               /\ log[k].op = "StartSpriteCombine"
        /\ NestedStart(k) =>
            IF ndebug
            THEN After(k).abort = "none" /\ CombineAfter(k) = SPRITE_COMBINE_PENDING
            ELSE After(k).abort = "assert" /\ CombineAfter(k) = CombineBefore(k)

\* A block that ends PENDING because its only sprite was clipped, followed
\* by a block that a surviving sprite makes ACTIVE.
C12_Witness ==
    \E k, j \in 1..Len(log) :
        /\ k < j
        /\ log[k].op = "EndSpriteCombine"
        /\ CombineBefore(k) = SPRITE_COMBINE_PENDING /\ CombineAfter(k) = SPRITE_COMBINE_NONE
        /\ CombineBefore(j) = SPRITE_COMBINE_PENDING /\ CombineAfter(j) = SPRITE_COMBINE_ACTIVE

\* The foundation part DrawGroundSpriteAt uses in state s (line 597).
GroundPart(s) ==
    IF s.foundation_part = FOUNDATION_PART_NONE THEN FOUNDATION_PART_NORMAL ELSE s.foundation_part

\* The parents of s and t are the same but for their first_child links.
SameParents(s, t) ==
    /\ Len(t.parent_sprites_to_draw) = Len(s.parent_sprites_to_draw)
    /\ \A p \in 1..Len(s.parent_sprites_to_draw) :
        [t.parent_sprites_to_draw[p] EXCEPT !.first_child = -1] =
            [s.parent_sprites_to_draw[p] EXCEPT !.first_child = -1]

\* From s to t one child was stored, with this image, at the end of the
\* chain of the p-th parent.
StoredAsChildOf(s, t, p, image) ==
    LET n == Len(s.child_screen_sprites_to_draw) IN
    /\ Len(t.child_screen_sprites_to_draw) = n + 1
    /\ t.child_screen_sprites_to_draw[n + 1].image = image
    /\ Chain(t, p) = Chain(s, p) \o <<n>>

(***************************************************************************)
(* C13: DrawGroundSpriteAt stores the sprite as a child of the parent that *)
(* the active foundation slot references, leaving the ground sprite list   *)
(* and the parent list as they were; without such a parent it appends      *)
(* exactly one ground sprite and leaves the child list and every chain as  *)
(* they were.                                                              *)
(***************************************************************************)
C13_GroundSpritePlacement ==
    \A k \in 1..Len(log) : log[k].op = "DrawGroundSpriteAt" =>
        LET s == Before(k)
            t == After(k)
            slot == s.foundation[GroundPart(s)]
        IN  IF slot # -1
            THEN /\ StoredAsChildOf(s, t, slot + 1, log[k].arg.image)
                 /\ t.tile_sprites_to_draw = s.tile_sprites_to_draw
                 /\ SameParents(s, t)
            ELSE /\ Len(t.tile_sprites_to_draw) = Len(s.tile_sprites_to_draw) + 1
                 /\ SubSeq(t.tile_sprites_to_draw, 1, Len(s.tile_sprites_to_draw)) =
                        s.tile_sprites_to_draw
                 /\ t.tile_sprites_to_draw[Len(t.tile_sprites_to_draw)].image = log[k].arg.image
                 /\ t.child_screen_sprites_to_draw = s.child_screen_sprites_to_draw
                 /\ t.parent_sprites_to_draw = s.parent_sprites_to_draw

\* The number of parents stored before the tile of the k-th call began: at
\* the last TileBegin among the calls 1..k, or none before the first tile.
RECURSIVE TileStart(_)
TileStart(k) ==
    IF k = 0 THEN 0
    ELSE IF log[k].op = "TileBegin" THEN Len(Before(k).parent_sprites_to_draw)
    ELSE TileStart(k - 1)

\* A slot of v references a parent stored before index n.
SlotBelow(v, n) == \E part \in FoundationParts : v.foundation[part] # -1 /\ v.foundation[part] < n

(***************************************************************************)
(* C14: OffsetGroundSprite binds the slot to the most recently created     *)
(* parent only if a parent was created for the current tile; otherwise the *)
(* slot stays empty and the tile's ground sprites become plain ground      *)
(* sprites.  A slot never references a parent created for another tile.    *)
(***************************************************************************)
C14_SlotPerTile ==
    /\ ~SlotBelow(vd, TileStart(Len(log)))
    /\ \A k \in 1..Len(log) :
        LET s == Before(k)
            t == After(k)
            none_in_tile == Len(s.parent_sprites_to_draw) = TileStart(k)
        IN  /\ (log[k].op = "OffsetGroundSprite" /\ t.abort = "none") =>
                /\ t.foundation[t.foundation_part] \in {-1, Len(s.parent_sprites_to_draw) - 1}
                /\ none_in_tile => t.foundation[t.foundation_part] = -1
            /\ (log[k].op = "DrawGroundSpriteAt" /\ none_in_tile) =>
                /\ Len(t.tile_sprites_to_draw) = Len(s.tile_sprites_to_draw) + 1
                /\ t.child_screen_sprites_to_draw = s.child_screen_sprites_to_draw

\* From s to t one child was stored and linked at the end of the chain of
\* one parent, and the other chains are as they were.
AppendedToOneChain(s, t) ==
    LET n == Len(s.child_screen_sprites_to_draw) IN
    /\ Len(t.child_screen_sprites_to_draw) = n + 1
    /\ SameParents(s, t)
    /\ \E p \in 1..Len(s.parent_sprites_to_draw) :
        /\ Chain(t, p) = Chain(s, p) \o <<n>>
        /\ \A q \in 1..Len(s.parent_sprites_to_draw) : q # p => Chain(t, q) = Chain(s, q)

(***************************************************************************)
(* C15: AddChildSprite without an attachment point is a silent no-op that  *)
(* stores no child and leaves the parents, every chain, the foundation     *)
(* slots and the combine state as they were; otherwise it appends exactly  *)
(* one child at the end of the active chain.                               *)
(***************************************************************************)
C15_ChildAttach ==
    \A k \in 1..Len(log) : log[k].op = "AddChildSpriteScreen" =>
        IF NoAttachmentPoint(Before(k))
        THEN After(k) = Before(k)
        ELSE AppendedToOneChain(Before(k), After(k))

(***************************************************************************)
(* The whole region draw, ViewportDoDraw: the accumulation phase, then the *)
(* draw phase, then the next invocation.  drawlog keeps what the draw      *)
(* phase does, in order: one entry per DrawSpriteViewport, DrawBox and     *)
(* DrawString call and one per call of the sorter.                         *)
(***************************************************************************)
MaxDrawCalls == 4

MaxLaterCalls == 1

MaxRegions == 2

INVALID_COLOUR == "INVALID_COLOUR"

\* Lines 894-907.
AddStringToDraw(v, nd, ss) ==
    IF AssertFails(nd, ss.width # 0) THEN {Aborted(v, "assert")}
    ELSE {[v EXCEPT !.string_sprites_to_draw = Append(@, ss)]}

\* Calls of ViewportAddString: a sign with its frame, and the shadow text
\* of a small sign (line 1365).
StringCalls ==
    {[string |-> "S", x |-> 8, y |-> 8, colour |-> "COLOUR_GREY", width |-> 20],
     [string |-> "T", x |-> 9, y |-> 8, colour |-> INVALID_COLOUR, width |-> 12]}

AddString ==
    /\ CanCall
    /\ \E ss \in StringCalls :
        /\ vd' \in AddStringToDraw(vd, ndebug, ss)
        /\ log' = Logged("AddStringToDraw", ss)
    /\ UNCHANGED <<ndebug, draw_bounding_boxes, drawlog, region, sortVars, chk>>

\* The entries of drawlog.
Drawn(kind, image, x, y) == [kind |-> kind, image |-> image, x |-> x, y |-> y]

\* Lines 1540-1545.
ViewportDrawTileSprites(tstdv) ==
    [i \in 1..Len(tstdv) |-> Drawn("tile", tstdv[i].image, tstdv[i].x, tstdv[i].y)]

\* Lines 1679-1684: the children of ps from child_idx on, each drawn
\* relative to the parent's left and top.
RECURSIVE DrawChildrenFrom(_, _, _, _)
DrawChildrenFrom(csstdv, ps, child_idx, fuel) ==
    IF child_idx < 0 \/ fuel = 0 THEN <<>>
    ELSE LET cs == csstdv[child_idx + 1] IN
         <<Drawn("child", cs.image, ps.left + cs.x, ps.top + cs.y)>>
            \o DrawChildrenFrom(csstdv, ps, cs.next, fuel - 1)

\* Lines 1676-1684 for one parent.
DrawParentSprite(csstdv, ps) ==
    (IF ps.image # SPR_EMPTY_BOUNDING_BOX
     THEN <<Drawn("parent", ps.image, ps.x, ps.y)>> ELSE <<>>)
        \o DrawChildrenFrom(csstdv, ps, ps.first_child, Len(csstdv))

\* Lines 1674-1686: psd holds 0-based indices into parents.
RECURSIVE ViewportDrawParentSprites(_, _, _)
ViewportDrawParentSprites(parents, psd, csstdv) ==
    IF psd = <<>> THEN <<>>
    ELSE DrawParentSprite(csstdv, parents[Head(psd) + 1])
            \o ViewportDrawParentSprites(parents, Tail(psd), csstdv)

\* Lines 1693-1705: one DrawBox per parent.
ViewportDrawBoundingBoxes(parents, psd) ==
    [i \in 1..Len(psd) |-> Drawn("box", parents[psd[i] + 1].image, psd[i], 0)]

\* Lines 1729-1762.  invisible is IsInvisibilitySet(TO_SIGNS); the strings
\* of the calls are not STR_WHITE_SIGN.
RECURSIVE ViewportDrawStrings(_, _)
ViewportDrawStrings(sstdv, invisible) ==
    IF sstdv = <<>> THEN <<>>
    ELSE LET ss == Head(sstdv) IN
         (IF ss.colour # INVALID_COLOUR /\ invisible THEN <<>>
          ELSE <<Drawn("string", ss.string, ss.x, ss.y)>>)
            \o ViewportDrawStrings(Tail(sstdv), invisible)

\* The AABB the sorter reads of a parent.
BoxOf(ps) == Box(ps.xmin, ps.xmax, ps.ymin, ps.ymax, ps.zmin, ps.zmax)

\* The draw callbacks have returned: line 1794.
DrawTileSprites ==
    /\ pc = "accumulate" /\ vd.abort = "none"
    /\ drawlog' = drawlog \o ViewportDrawTileSprites(vd.tile_sprites_to_draw)
    /\ pc' = "tiles_drawn"
    /\ UNCHANGED <<boxes, srt, vd, log, ndebug, draw_bounding_boxes, region, chk>>

\* Lines 1796-1800: the pointers to the parents are pushed in creation
\* order and the sorter is called on them.
SortParentSprites ==
    /\ pc = "tiles_drawn"
    /\ LET n == Len(vd.parent_sprites_to_draw)
           psts == vd.parent_sprites_to_sort \o [i \in 1..n |-> i - 1]
       IN /\ vd' = [vd EXCEPT !.parent_sprites_to_sort = psts]
          /\ boxes' = [i \in 1..Len(psts) |-> BoxOf(vd.parent_sprites_to_draw[psts[i] + 1])]
          /\ srt' = SortUntouched(boxes')
          /\ drawlog' = Append(drawlog, [kind |-> "sort", psdv |-> psts])
    /\ pc' = "start"
    /\ UNCHANGED <<log, ndebug, draw_bounding_boxes, region, chk>>

\* The sorter has returned, leaving parent_sprites_to_sort in its order:
\* line 1801.
DrawParentSprites ==
    /\ pc = "done" /\ region <= MaxRegions
    /\ LET psts == [i \in 1..Len(srt.psdv) |-> vd.parent_sprites_to_sort[srt.psdv[i]]]
       IN /\ vd' = [vd EXCEPT !.parent_sprites_to_sort = psts]
          /\ drawlog' = drawlog \o ViewportDrawParentSprites(vd.parent_sprites_to_draw, psts,
                                        vd.child_screen_sprites_to_draw)
    /\ pc' = "parents_drawn"
    /\ UNCHANGED <<boxes, srt, log, ndebug, draw_bounding_boxes, region, chk>>

\* Line 1803.
DrawBoundingBoxes ==
    /\ pc = "parents_drawn"
    /\ drawlog' = IF draw_bounding_boxes
                  THEN drawlog \o ViewportDrawBoundingBoxes(vd.parent_sprites_to_draw,
                                        vd.parent_sprites_to_sort)
                  ELSE drawlog
    /\ pc' = "boxes_drawn"
    /\ UNCHANGED <<boxes, srt, vd, log, ndebug, draw_bounding_boxes, region, chk>>

\* Lines 1820-1825.
DrawStrings ==
    /\ pc = "boxes_drawn"
    /\ \E invisible \in BOOLEAN :
        drawlog' = drawlog \o ViewportDrawStrings(vd.string_sprites_to_draw, invisible)
    /\ pc' = "drawn"
    /\ UNCHANGED <<boxes, srt, vd, log, ndebug, draw_bounding_boxes, region, chk>>

\* Lines 1829-1833.  The vectors keep their storage.
ClearVectors(v) ==
    [v EXCEPT !.string_sprites_to_draw = <<>>,
              !.tile_sprites_to_draw = <<>>,
              !.parent_sprites_to_draw = <<>>,
              !.parent_sprites_to_sort = <<>>,
              !.child_screen_sprites_to_draw = <<>>]

\* The end of ViewportDoDraw.
ReturnFromDraw ==
    /\ pc = "drawn"
    /\ vd' = ClearVectors(vd)
    /\ pc' = "returned"
    /\ boxes' = <<>>
    /\ srt' = SortUntouched(<<>>)
    /\ UNCHANGED <<log, ndebug, draw_bounding_boxes, drawlog, region, chk>>

PrologueKeepsCombine(v) ==
    [v EXCEPT !.dpi = RegionDpi,
              !.last_child = NullPtr]

\* Lines 1773-1780: the prologue of ViewportDoDraw.
Prologue(v) ==
    [v EXCEPT !.combine_sprites = SPRITE_COMBINE_NONE,
              !.dpi = RegionDpi,
              !.last_child = NullPtr]

\* ViewportDrawChk calls ViewportDoDraw for the next region.  The call
\* opens the log of the region, with _vd as the invocation found it.
NextRegion ==
    /\ pc = "returned" /\ region < MaxRegions
    /\ vd' = Prologue(vd)
    /\ region' = region + 1
    /\ log' = <<[op |-> "ViewportDoDraw", arg |-> NoArg, before |-> vd]>>
    /\ drawlog' = <<>>
    /\ pc' = "accumulate"
    /\ UNCHANGED <<boxes, srt, ndebug, draw_bounding_boxes, chk>>

\* The calls the draw callbacks make in one region.
DrawBudget == Len(log) < (IF region = 1 THEN MaxDrawCalls ELSE MaxLaterCalls + 1)

DrawInit ==
    /\ \E cap \in StorageChoices : vd = Prologue(NewViewportDrawer(RegionDpi, cap))
    /\ log = <<>>
    /\ ndebug \in BOOLEAN
    /\ draw_bounding_boxes \in BOOLEAN
    /\ drawlog = <<>>
    /\ region = 1
    /\ SortIdle
    /\ ChkIdle

DrawNext ==
    \/ DrawBudget /\ TileBegin
    \/ DrawBudget /\ AddSortable
    \/ DrawBudget /\ AddChild
    \/ DrawBudget /\ StartCombine
    \/ DrawBudget /\ EndCombine
    \/ DrawBudget /\ OffsetGround
    \/ DrawBudget /\ DrawGround
    \/ DrawBudget /\ AddString
    \/ DrawTileSprites
    \/ SortParentSprites
    \/ SortNext
    \/ DrawParentSprites
    \/ DrawBoundingBoxes
    \/ DrawStrings
    \/ ReturnFromDraw
    \/ NextRegion

SpecDraw == DrawInit /\ [][DrawNext]_vars

(***************************************************************************)
(* Vocabulary of the claims about the whole region draw.                   *)
(***************************************************************************)
\* The call of this region draw that stored the j-th child.
StoringCall(j) ==
    CHOOSE k \in 1..Len(log) :
        /\ Len(Before(k).child_screen_sprites_to_draw) < j
        /\ j <= Len(After(k).child_screen_sprites_to_draw)

\* The parent the j-th child was added to: the parent of the foundation
\* slot for a ground sprite, the latest parent for the other calls.
OwnerOf(j) ==
    LET k == StoringCall(j) IN
    IF log[k].op = "DrawGroundSpriteAt"
    THEN Before(k).foundation[GroundPart(Before(k))] + 1
    ELSE Len(Before(k).parent_sprites_to_draw)

\* The p-th parent followed by the children added to it, in the order of
\* their addition.
RECURSIVE OwnChildrenFrom(_, _)
OwnChildrenFrom(p, j) ==
    IF j > Len(vd.child_screen_sprites_to_draw) THEN <<>>
    ELSE LET ps == vd.parent_sprites_to_draw[p]
             cs == vd.child_screen_sprites_to_draw[j]
         IN (IF OwnerOf(j) = p
             THEN <<Drawn("child", cs.image, ps.left + cs.x, ps.top + cs.y)>> ELSE <<>>)
                \o OwnChildrenFrom(p, j + 1)

ParentWithOwnChildren(p) ==
    LET ps == vd.parent_sprites_to_draw[p] IN
    (IF ps.image # SPR_EMPTY_BOUNDING_BOX
     THEN <<Drawn("parent", ps.image, ps.x, ps.y)>> ELSE <<>>) \o OwnChildrenFrom(p, 1)

RECURSIVE ParentsWithOwnChildren(_)
ParentsWithOwnChildren(psd) ==
    IF psd = <<>> THEN <<>>
    ELSE ParentWithOwnChildren(Head(psd) + 1) \o ParentsWithOwnChildren(Tail(psd))

AllStrings ==
    [i \in 1..Len(vd.string_sprites_to_draw) |->
        Drawn("string", vd.string_sprites_to_draw[i].string,
              vd.string_sprites_to_draw[i].x, vd.string_sprites_to_draw[i].y)]

IsSprite(e) == e.kind \in {"tile", "parent", "child"}

IsSpriteOrString(e) == IsSprite(e) \/ e.kind = "string"

IsSort(e) == e.kind = "sort"

\* The sorter was called once, on the pointers to every parent in creation
\* order, before any parent or child was painted.
SortedOnce ==
    /\ Len(SelectSeq(drawlog, IsSort)) = 1
    /\ \A i \in 1..Len(drawlog) :
        IsSort(drawlog[i]) =>
            /\ drawlog[i].psdv = [p \in 1..Len(vd.parent_sprites_to_draw) |-> p - 1]
            /\ \A h \in 1..(i - 1) : drawlog[h].kind \notin {"parent", "child"}

(***************************************************************************)
(* C16: in a region draw the sorter runs once, on all parents in creation  *)
(* order, after the accumulation, and what is painted is every ground      *)
(* sprite, then the parents in sorted order, each followed at once by all  *)
(* the children added to it in the order of their addition, then every     *)
(* string.                                                                 *)
(***************************************************************************)
C16_PaintOrder ==
    pc = "drawn" =>
        /\ SortedOnce
        /\ SelectSeq(drawlog, IsSpriteOrString) =
              ViewportDrawTileSprites(vd.tile_sprites_to_draw)
                 \o ParentsWithOwnChildren(vd.parent_sprites_to_sort)
                 \o AllStrings

\* Screen rectangles, right and bottom exclusive.
Rect(l, r, t, b) == [left |-> l, right |-> r, top |-> t, bottom |-> b]

\* The rectangle of the sprite's bitmap and the rectangle of the projected
\* bounding box of a call.
SpriteRect(r) ==
    Rect(r.pt.x + r.spr.x_offs, r.pt.x + r.spr.x_offs + r.spr.width,
         r.pt.y + r.spr.y_offs, r.pt.y + r.spr.y_offs + r.spr.height)

BoxRect(r) == Rect(r.bb.left, r.bb.right + 1, r.bb.top, r.bb.bottom + 1)

\* The smallest rectangle around a and b.
Hull(a, b) ==
    Rect(Min2(a.left, b.left), Max2(a.right, b.right), Min2(a.top, b.top), Max2(a.bottom, b.bottom))

\* Rectangle a and the clip rectangle have a pixel in common.
Meets(dpi, a) ==
    /\ a.left < dpi.left + dpi.width /\ a.right > dpi.left
    /\ a.top < dpi.top + dpi.height /\ a.bottom > dpi.top

\* The union of the bitmap's and the bounding box's rectangle meets the
\* clip rectangle; the sprite without pixels has the bounding box only.
UnionMeets(dpi, r) ==
    IF r.image = SPR_EMPTY_BOUNDING_BOX THEN Meets(dpi, BoxRect(r))
    ELSE Meets(dpi, SpriteRect(r)) \/ Meets(dpi, BoxRect(r))

\* The rectangle the call is clipped by.
ClipRect(r, dbb) ==
    IF r.image = SPR_EMPTY_BOUNDING_BOX THEN BoxRect(r)
    ELSE IF dbb THEN Hull(SpriteRect(r), BoxRect(r))
    ELSE SpriteRect(r)

\* Call k is AddSortableSpriteToDraw made while the combine state is not
\* ACTIVE.
SortableOutsideCombine(k) ==
    /\ log[k].op = "AddSortableSpriteToDraw"
    /\ Before(k).combine_sprites # SPRITE_COMBINE_ACTIVE

\* Call k stored one parent if wanted and none otherwise, and left the
\* parents stored before as they were.
StoresParentIff(k, wanted) ==
    LET old == Before(k).parent_sprites_to_draw
        new == After(k).parent_sprites_to_draw
    IN  /\ Len(new) = Len(old) + (IF wanted THEN 1 ELSE 0)
        /\ SubSeq(new, 1, Len(old)) = old

(***************************************************************************)
(* C17: AddSortableSpriteToDraw outside an ACTIVE combine block stores     *)
(* exactly one new parent if the union of the bitmap's screen rectangle    *)
(* and the bounding box's screen rectangle meets the clip rectangle and    *)
(* none if it does not; the parents stored before stay as they were.       *)
(***************************************************************************)
C17_UnionClip ==
    \A k \in 1..Len(log) :
        SortableOutsideCombine(k) => StoresParentIff(k, UnionMeets(Before(k).dpi, log[k].arg))

\* C17 as the code has it: the rectangle tested is the bitmap's alone; it
\* is the bounding box's for the sprite without pixels, and the rectangle
\* around both only while _draw_bounding_boxes is set.
C17_Amended ==
    \A k \in 1..Len(log) :
        SortableOutsideCombine(k) =>
            StoresParentIff(k, Meets(Before(k).dpi, ClipRect(log[k].arg, draw_bounding_boxes)))

\* A sprite whose bounding box is on screen and whose bitmap is not was
\* dropped, after a parent had been stored.
C17_Witness ==
    \E k \in 1..Len(log) :
        /\ SortableOutsideCombine(k)
        /\ log[k].arg = CallHidden
        /\ ~draw_bounding_boxes
        /\ Before(k).parent_sprites_to_draw # <<>>
        /\ After(k).parent_sprites_to_draw = Before(k).parent_sprites_to_draw
        /\ UnionMeets(Before(k).dpi, log[k].arg)

\* Call k is a StartSpriteCombine or an EndSpriteCombine whose precondition
\* does not hold.
MisplacedCombineCall(k) ==
    \/ log[k].op = "StartSpriteCombine" /\ CombineBefore(k) # SPRITE_COMBINE_NONE
    \/ log[k].op = "EndSpriteCombine" /\ CombineBefore(k) = SPRITE_COMBINE_NONE

\* Call k was accepted: it ran to its end and set the combine state.
AcceptedCombineCall(k) ==
    /\ After(k).abort = "none"
    /\ log[k].op = "StartSpriteCombine" => CombineAfter(k) = SPRITE_COMBINE_PENDING
    /\ log[k].op = "EndSpriteCombine" => CombineAfter(k) = SPRITE_COMBINE_NONE

\* Call k tripped the assertion and left _vd as it was.
TrippedAssertion(k) == After(k) = Aborted(Before(k), "assert")

(***************************************************************************)
(* C18: StartSpriteCombine is accepted only with the combine state NONE    *)
(* and EndSpriteCombine only with a state other than NONE; a call made in  *)
(* any other state trips the assertion and leaves the state as it was.     *)
(***************************************************************************)
C18_CombinePreconditions ==
    \A k \in 1..Len(log) :
        log[k].op \in {"StartSpriteCombine", "EndSpriteCombine"} =>
            IF MisplacedCombineCall(k) THEN TrippedAssertion(k) ELSE AcceptedCombineCall(k)

\* C18 as the code has it: the assertion exists only in a build without
\* NDEBUG; with NDEBUG every call is accepted.
C18_Amended ==
    \A k \in 1..Len(log) :
        log[k].op \in {"StartSpriteCombine", "EndSpriteCombine"} =>
            IF MisplacedCombineCall(k) /\ ~ndebug THEN TrippedAssertion(k)
            ELSE AcceptedCombineCall(k)

\* An accepted StartSpriteCombine followed, inside the block, by one that
\* tripped the assertion.
C18_Witness ==
    \E k, j \in 1..Len(log) :
        /\ k < j
        /\ log[k].op = "StartSpriteCombine" /\ ~MisplacedCombineCall(k) /\ AcceptedCombineCall(k)
        /\ log[j].op = "StartSpriteCombine" /\ MisplacedCombineCall(j) /\ TrippedAssertion(j)

\* Nothing is left in the draw lists of v, no combine block is open and
\* there is no attachment point.
NothingCarried(v) ==
    /\ v.tile_sprites_to_draw = <<>>
    /\ v.parent_sprites_to_draw = <<>>
    /\ v.parent_sprites_to_sort = <<>>
    /\ v.child_screen_sprites_to_draw = <<>>
    /\ v.string_sprites_to_draw = <<>>
    /\ v.combine_sprites = SPRITE_COMBINE_NONE
    /\ v.last_child = NullPtr

(***************************************************************************)
(* C19: when the callbacks of an invocation of ViewportDoDraw after the    *)
(* first start to run, the lists of ground sprites, parents, sort          *)
(* pointers, children and strings are empty, the combine state is NONE and *)
(* the attachment point is null, whatever the invocation before it did.    *)
(***************************************************************************)
C19_NothingCarried ==
    region > 1 =>
        /\ log # <<>>
        /\ log[1].op = "ViewportDoDraw"
        /\ NothingCarried(After(1))

\* The second invocation has started after one that ended inside a combine
\* block, with an attachment point, and that had stored sprites.
C19_Witness ==
    /\ region = 2
    /\ pc = "accumulate"
    /\ Len(log) = 1
    /\ Before(1).combine_sprites = SPRITE_COMBINE_ACTIVE
    /\ Before(1).last_child # NullPtr
    /\ Before(1).parent_cap > 0
    /\ NothingCarried(vd)

(***************************************************************************)
(* One call of ViewportDrawChk as a state machine.  pending is the stack   *)
(* of the recursion: the pieces whose call has not started yet, the next   *)
(* one first.  cut keeps the pieces that were split and drawn the calls of *)
(* ViewportDoDraw, both in the order they happened.                        *)
(***************************************************************************)
ChkInit ==
    /\ \E vp \in ViewPorts, r \in ChkRequests :
        chk = [vp |-> vp, request |-> r, pending |-> <<r>>, cut |-> <<>>, drawn |-> <<>>]
    /\ AccIdle
    /\ SortIdle

\* Lines 1842-1851.
ChkSplit ==
    /\ chk.pending # <<>>
    /\ TooBig(chk.vp, Head(chk.pending))
    /\ chk' = [chk EXCEPT !.pending = Halves(Head(@)) \o Tail(@),
                          !.cut = Append(@, Head(chk.pending))]
    /\ UNCHANGED <<sortVars, accVars>>

\* Lines 1852-1859.
ChkDoDraw ==
    /\ chk.pending # <<>>
    /\ ~TooBig(chk.vp, Head(chk.pending))
    /\ chk' = [chk EXCEPT !.pending = Tail(@),
                          !.drawn = Append(@, [piece |-> Head(chk.pending),
                                               args |-> DoDrawArgs(chk.vp, Head(chk.pending))])]
    /\ UNCHANGED <<sortVars, accVars>>

ChkNext == ChkSplit \/ ChkDoDraw

SpecChk == ChkInit /\ [][ChkNext]_vars

(***************************************************************************)
(* Vocabulary of the claim about ViewportDrawChk.                          *)
(***************************************************************************)
Width(r) == r.right - r.left

Height(r) == r.bottom - r.top

Area(r) == Width(r) * Height(r)

\* The area of r in the units of the zoom level.
ScaledArea(r, zoom) == Area(r) * 2^zoom * 2^zoom

\* Rectangles a and b, right and bottom exclusive, share a pixel.
PiecesOverlap(a, b) ==
    /\ a.left < b.right /\ b.left < a.right
    /\ a.top < b.bottom /\ b.top < a.bottom

Inside(a, b) ==
    /\ b.left <= a.left /\ a.right <= b.right
    /\ b.top <= a.top /\ a.bottom <= b.bottom

RECURSIVE SumOfAreas(_)
SumOfAreas(pieces) ==
    IF pieces = <<>> THEN 0 ELSE Area(Head(pieces).piece) + SumOfAreas(Tail(pieces))

\* The rectangle was cut across its longer side.
CutAcrossLongerSide(r) ==
    LET h == Halves(r) IN
    IF Height(r) > Width(r)
    THEN h[1].bottom = h[2].top /\ Width(h[1]) = Width(r) /\ Width(h[2]) = Width(r)
    ELSE h[1].right = h[2].left /\ Height(h[1]) = Height(r) /\ Height(h[2]) = Height(r)

\* The call of ViewportDrawChk has returned.
ChkReturned == chk.pending = <<>> /\ chk.drawn # <<>>

(***************************************************************************)
(* C20: ViewportDrawChk cuts a rectangle in two across its longer side     *)
(* exactly when its area at the zoom level of the viewport is above the    *)
(* limit; the pieces handed to ViewportDoDraw, one call each, have an area *)
(* within the limit, do not overlap and together cover exactly the         *)
(* requested rectangle.                                                    *)
(***************************************************************************)
C20_DrawChkPartition ==
    /\ \A i \in 1..Len(chk.cut) :
        /\ ScaledArea(chk.cut[i], chk.vp.zoom) > SpriteMemoryLimit
        /\ CutAcrossLongerSide(chk.cut[i])
    /\ \A i \in 1..Len(chk.drawn) :
        /\ ScaledArea(chk.drawn[i].piece, chk.vp.zoom) <= SpriteMemoryLimit
        /\ Area(chk.drawn[i].args) = ScaledArea(chk.drawn[i].piece, chk.vp.zoom)
        /\ Inside(chk.drawn[i].piece, chk.request)
        /\ \A j \in 1..Len(chk.drawn) :
            i # j => /\ ~PiecesOverlap(chk.drawn[i].piece, chk.drawn[j].piece)
                     /\ chk.drawn[i].args # chk.drawn[j].args
    /\ ChkReturned =>
        /\ SumOfAreas(chk.drawn) = Area(chk.request)
        /\ (Len(chk.drawn) = 1) = (ScaledArea(chk.request, chk.vp.zoom) <= SpriteMemoryLimit)
        /\ Len(chk.drawn) = Len(chk.cut) + 1

\* A request above the limit, taller than wide, with odd sides, was cut in
\* both directions and has been drawn in more than two pieces.
C20_Witness ==
    /\ ChkReturned
    /\ chk.vp.zoom > 0
    /\ Height(chk.request) > Width(chk.request)
    /\ Width(chk.request) % 2 = 1
    /\ Len(chk.drawn) > 2
    /\ \E i, j \in 1..Len(chk.cut) : SplitRows(chk.cut[i]) /\ ~SplitRows(chk.cut[j])

(***************************************************************************)
(* Vocabulary of the properties of the runs of the inner loop.             *)
(***************************************************************************)
\* The sprites written so far, in order.
Output == SubSeq(srt.psdv, 1, IF srt.out <= Len(srt.psdv) THEN srt.out ELSE Len(srt.psdv))

Emitted(id) == id \in Range(Output)

\* Both are written, a before b.
EmittedBefore(a, b) ==
    \E i, j \in 1..Len(Output) : i < j /\ Output[i] = a /\ Output[j] = b

\* The inner loop has run for s; the preceding set it computed last.
Scanned(s) == srt.scans[s] # <<>>

PrecedingSetOf(s) == Range(srt.scans[s][Len(srt.scans[s])])

\* p is in the stack above the copy of s that was pushed back as compared
\* (the topmost copy of s).
AboveComparedCopy(p, s) ==
    \E i, j \in 1..Len(srt.sprite_order) :
        /\ srt.sprite_order[i] = s
        /\ \A h \in (i + 1)..Len(srt.sprite_order) : srt.sprite_order[h] # s
        /\ i < j /\ srt.sprite_order[j] = p

(***************************************************************************)
(* C21: in every run of the sorter a sprite is written only after every    *)
(* member of the preceding set computed for it: while it waits in the      *)
(* stack marked compared each member is already written or lies above it   *)
(* in the stack, and once it is written each member was written before it. *)
(***************************************************************************)
C21_PredecessorsFirst ==
    \A s \in SpriteIds :
        Scanned(s) =>
            \A p \in PrecedingSetOf(s) :
                /\ srt.order[s] = ORDER_COMPARED => (Emitted(p) \/ AboveComparedCopy(p, s))
                /\ Emitted(s) => EmittedBefore(p, s)
                /\ (Emitted(s) \/ srt.order[s] = ORDER_COMPARED)

\* A run on three sprites has returned in which one sprite had the two
\* others as its preceding set, and both were written before it.
C21_Witness ==
    /\ pc = "done" /\ Len(boxes) = 3
    /\ \E s \in SpriteIds :
        /\ Scanned(s) /\ Cardinality(PrecedingSetOf(s)) = 2
        /\ \A p \in PrecedingSetOf(s) : EmittedBefore(p, s)

\* The sprite the next iteration scans for, and the result of that scan.
AboutToScan == pc = "loop" /\ NeedsScan(srt)

NextScan == Scan(boxes, srt, Top(srt))

\* The other sprites still in the list.
OthersInList(s) == Range(srt.sprite_list) \ {s}

(***************************************************************************)
(* C22: the preceding set computed for a popped sprite s is exactly the    *)
(* set of the other sprites p in the list that are comparable to s with    *)
(* sum(p) <= sum(s); a sprite that does not overlap s on some axis is      *)
(* never a member.                                                         *)
(***************************************************************************)
C22_PrecedingSet ==
    AboutToScan =>
        LET s == Top(srt) IN
        /\ Range(NextScan.preceding) =
              {p \in OthersInList(s) :
                  Comparable(boxes[p], boxes[s]) /\ BoxSum(boxes[p]) <= BoxSum(boxes[s])}
        /\ \A p \in Range(NextScan.preceding) : Comparable(boxes[p], boxes[s])

\* C22 as the code has it: the members are the other sprites p in the list
\* that start at or below the end of s on all three axes and, if they are
\* comparable to s, have sum(p) < sum(s).
C22_Amended ==
    AboutToScan =>
        LET s == Top(srt) IN
        Range(NextScan.preceding) =
            {p \in OthersInList(s) :
                /\ StartsWithin(boxes[p], boxes[s])
                /\ Comparable(boxes[p], boxes[s]) => BoxSum(boxes[p]) < BoxSum(boxes[s])}

\* A scan that collects a sprite lying below s without overlapping it, and
\* leaves out a comparable sprite of the same sum.
C22_Witness ==
    /\ AboutToScan
    /\ \E p, q \in OthersInList(Top(srt)) :
        /\ p \in Range(NextScan.preceding)
        /\ ~Comparable(boxes[p], boxes[Top(srt)])
        /\ q \notin Range(NextScan.preceding)
        /\ Comparable(boxes[q], boxes[Top(srt)])
        /\ BoxSum(boxes[q]) = BoxSum(boxes[Top(srt)])

\* Sprite q is not written yet.
Unemitted(q) == srt.order[q] # ORDER_RETURNED

(***************************************************************************)
(* C23: whenever the shortcut for a single preceding sprite p is taken, no *)
(* sprite that is still unwritten satisfies the precedence test against p: *)
(* p has no unresolved predecessor when it is written.                     *)
(***************************************************************************)
C23_ShortcutSafe ==
    (AboutToScan /\ TakesFastPath(boxes, srt, NextScan)) =>
        LET s == Top(srt)
            p == NextScan.preceding[1]
        IN  \A q \in SpriteIds \ {p} :
                Unemitted(q) => ~IsPreceding(boxes[q], boxes[p])

\* The sorter with the shortcut of lines 1645-1656 taken out: every scan
\* that finds a preceding sprite goes on to lines 1659-1669.
SortIterGeneralOnly(bx, st) ==
    IF st.order[Top(st)] = ORDER_RETURNED THEN IterReturned(st)
    ELSE IF st.order[Top(st)] = ORDER_COMPARED THEN IterCompared(st)
    ELSE LET sc == Scan(bx, st, Top(st)) IN
         IF sc.preceding = <<>> THEN IterEmpty(st, sc)
         ELSE IterGeneral(st, sc, CHOOSE q \in SortedByOrder(st.order, sc.preceding) : TRUE)

RECURSIVE SortRunGeneralOnly(_, _)
SortRunGeneralOnly(bx, st) ==
    IF st.sprite_order = <<>> THEN st ELSE SortRunGeneralOnly(bx, SortIterGeneralOnly(bx, st))

SortResultGeneralOnly(bx) ==
    IF Len(bx) < 2 THEN SortUntouched(bx).psdv ELSE SortRunGeneralOnly(bx, SortInit(bx)).psdv

(***************************************************************************)
(* C24: for every input the sorter writes the sprites in the order the     *)
(* same algorithm writes them with the shortcut for a single preceding     *)
(* sprite taken out.                                                       *)
(***************************************************************************)
C24_ShortcutEquivalent == pc = "done" => srt.psdv = SortResultGeneralOnly(boxes)

\* Neither of a and b satisfies the precedence test against the other.
Unconstrained(a, b) ==
    ~IsPreceding(boxes[a], boxes[b]) /\ ~IsPreceding(boxes[b], boxes[a])

\* No sprite satisfies the precedence test against a sprite other than s.
OnlyConstrained(s) ==
    \A a \in SpriteIds \ {s} : \A b \in SpriteIds \ {a} : ~IsPreceding(boxes[b], boxes[a])

(***************************************************************************)
(* C25: the members of a preceding set of two or more sprites that have no *)
(* precedence constraint among themselves are written in their insertion   *)
(* order, the earlier inserted first.                                      *)
(***************************************************************************)
C25_InsertionOrderKept ==
    pc = "done" =>
        \A s \in SpriteIds :
            Scanned(s) =>
                \A p1, p2 \in PrecedingSetOf(s) :
                    (p1 < p2 /\ Unconstrained(p1, p2)) => EmittedBefore(p1, p2)

\* C25 as the code has it: the members are pushed by descending order
\* value, the earliest inserted first and the latest on top; where nothing
\* precedes any sprite but s, they are written in reverse insertion order.
C25_Amended ==
    pc = "done" =>
        \A s \in SpriteIds :
            (Scanned(s) /\ OnlyConstrained(s)) =>
                \A p1, p2 \in PrecedingSetOf(s) : p1 < p2 => EmittedBefore(p2, p1)

\* The first of three sprites had the two others as its preceding set, and
\* the third was written before the second.
C25_Witness ==
    /\ pc = "done" /\ Len(boxes) = 3
    /\ Scanned(1) /\ PrecedingSetOf(1) = {2, 3}
    /\ OnlyConstrained(1)
    /\ Output = <<3, 2, 1>>

Marked(s) == srt.order[s] \in {ORDER_COMPARED, ORDER_RETURNED}

RECURSIVE SumOfScans(_, _)
SumOfScans(sc, n) == IF n = 0 THEN 0 ELSE Len(sc[n]) + SumOfScans(sc, n - 1)

\* One iteration of the loop pops a compared sprite: it is output, nothing is scanned.
PoppedComparedEmits ==
    (pc = "loop" /\ srt.sprite_order # <<>> /\ srt.order[Top(srt)] = ORDER_COMPARED) =>
        /\ srt'.scans = srt.scans
        /\ srt'.sprite_list = srt.sprite_list
        /\ srt'.out = srt.out + 1
        /\ srt'.psdv[srt'.out] = Top(srt)
        /\ srt'.sprite_order = Pop(srt).sprite_order

\* One iteration of the loop pops an output sprite: nothing else changes.
PoppedReturnedSkips ==
    (pc = "loop" /\ srt.sprite_order # <<>> /\ srt.order[Top(srt)] = ORDER_RETURNED) =>
        srt' = Pop(srt)

(***************************************************************************)
(* C27: the predecessor search runs at most once per sprite.  A sprite     *)
(* popped in the compared state is output without a new scan, a sprite     *)
(* popped in the output state is skipped, a sprite marked compared or      *)
(* output is never scanned again, and one run makes at most N scans.       *)
(***************************************************************************)
C27_ScanOncePerSprite ==
    [][ pc = "loop" =>
          /\ PoppedComparedEmits
          /\ PoppedReturnedSkips
          /\ \A s \in SpriteIds : Marked(s) => srt'.scans[s] = srt.scans[s]
          /\ \A s \in SpriteIds : Len(srt'.scans[s]) <= 1
          /\ SumOfScans(srt'.scans, Len(boxes)) <= Len(boxes) ]_vars

\* A run over three sprites has scanned each of them, has popped one of
\* them a second time in the compared state, and is over.
C27_Witness ==
    /\ pc = "done" /\ Len(boxes) = 3
    /\ SumOfScans(srt.scans, 3) = 3
    /\ \E s \in SpriteIds : Scanned(s) /\ Cardinality(PrecedingSetOf(s)) >= 2

\* The test of the scan holds for no ordered pair of the input.
NothingPrecedes ==
    \A a, b \in SpriteIds : a # b => ~IsPreceding(boxes[a], boxes[b])

EveryScanEmpty == \A s \in SpriteIds : srt.scans[s] \in {<<>>, << <<>> >>}

(***************************************************************************)
(* C28: popping the initial stack yields the insertion order.  When the    *)
(* implemented precedence test holds for no ordered pair of the input,     *)
(* every scan returns nothing and the output order is the insertion order. *)
(***************************************************************************)
C28_InsertionOrderWithoutPrecedence ==
    /\ (pc = "loop" /\ NothingPrecedes) =>
            /\ EveryScanEmpty
            /\ Output = [i \in 1..srt.out |-> i]
            /\ srt.sprite_order = [k \in 1..(Len(boxes) - srt.out) |-> Len(boxes) + 1 - k]
    /\ (pc = "done" /\ NothingPrecedes) => (EveryScanEmpty /\ IdentityOrder)
    /\ (pc = "done" /\ EveryScanEmpty) => IdentityOrder

\* A run over three distinct sprites, none preceding another, is over and
\* has scanned each of them.
C28_Witness ==
    /\ pc = "done" /\ Len(boxes) = 3 /\ NothingPrecedes
    /\ \A s \in SpriteIds : srt.scans[s] = << <<>> >>
    /\ boxes[1] # boxes[2] /\ boxes[2] # boxes[3]
    /\ srt.psdv = <<1, 2, 3>>

\* Call k is AddSortableSpriteToDraw made while the combine state is ACTIVE.
CombinedCall(k) ==
    /\ log[k].op = "AddSortableSpriteToDraw"
    /\ CombineBefore(k) = SPRITE_COMBINE_ACTIVE

LastParent(v) == v.parent_sprites_to_draw[Len(v.parent_sprites_to_draw)]

\* From s to t no child was stored and no chain changed.
NoChildStored(s, t) ==
    /\ t.child_screen_sprites_to_draw = s.child_screen_sprites_to_draw
    /\ \A p \in 1..Len(s.parent_sprites_to_draw) : Chain(t, p) = Chain(s, p)

\* From s to t one child was stored for the call r, at the end of the chain
\* of the last parent and at the offset of r from that parent's corner; the
\* stored children and the other chains are as they were.
OneChildOfLastParent(s, t, r) ==
    LET n == Len(s.child_screen_sprites_to_draw)
        last == Len(s.parent_sprites_to_draw)
    IN  /\ Len(t.child_screen_sprites_to_draw) = n + 1
        /\ ChildAt(t, n).image = r.image
        /\ ChildAt(t, n).x = r.pt.x - LastParent(s).left
        /\ ChildAt(t, n).y = r.pt.y - LastParent(s).top
        /\ Chain(t, last) = Chain(s, last) \o <<n>>
        /\ \A q \in 1..(last - 1) : Chain(t, q) = Chain(s, q)
        /\ \A c \in 0..(n - 1) : ChildAt(t, c).image = ChildAt(s, c).image

(***************************************************************************)
(* C29: while the combine state is ACTIVE, AddSortableSpriteToDraw creates *)
(* no parent and changes no stored bounding box; it appends at most one    *)
(* child, to the chain of the most recently created parent, at the offset  *)
(* of the projected position from that parent's screen corner, and it      *)
(* appends nothing when the sprite's bitmap rectangle is outside the clip  *)
(* rectangle.                                                              *)
(***************************************************************************)
C29_CombinedSpriteIsChild ==
    \A k \in 1..Len(log) : CombinedCall(k) =>
        LET s == Before(k)
            t == After(k)
            r == log[k].arg
        IN  /\ SameParents(s, t)
            /\ t.combine_sprites = SPRITE_COMBINE_ACTIVE
            /\ IF ~Meets(s.dpi, SpriteRect(r))
               THEN NoChildStored(s, t)
               ELSE NoChildStored(s, t) \/ OneChildOfLastParent(s, t, r)

\* Call k opens a combine block, and no call from k + 1 to m starts or ends one.
InBlockFrom(k, m) ==
    /\ k < m
    /\ log[k].op = "StartSpriteCombine"
    /\ CombineBefore(k) = SPRITE_COMBINE_NONE
    /\ CombineAfter(k) = SPRITE_COMBINE_PENDING
    /\ \A i \in (k + 1)..m : log[i].op \notin {"StartSpriteCombine", "EndSpriteCombine"}

IsSortable(i) == log[i].op = "AddSortableSpriteToDraw"

\* The clip test of lines 748-753 rejects call i.
ClippedCall(i) == SortableClipped(Before(i), log[i].arg, draw_bounding_boxes)

\* Call m is the first AddSortableSpriteToDraw of the block opened at k that
\* is not clipped.
FirstUnclipped(k, m) ==
    /\ InBlockFrom(k, m) /\ IsSortable(m) /\ ~ClippedCall(m)
    /\ \A i \in (k + 1)..(m - 1) : IsSortable(i) => ClippedCall(i)

\* Call m stored nothing.
StoredNothing(m) ==
    /\ After(m).parent_sprites_to_draw = Before(m).parent_sprites_to_draw
    /\ After(m).child_screen_sprites_to_draw = Before(m).child_screen_sprites_to_draw
    /\ After(m).tile_sprites_to_draw = Before(m).tile_sprites_to_draw

\* Call m stored its sprite as a new parent, the last one.
BecameParent(m) ==
    /\ StoresParentIff(m, TRUE)
    /\ LastParent(After(m)) = NewParentSprite(log[m].arg, draw_bounding_boxes)
    /\ After(m).child_screen_sprites_to_draw = Before(m).child_screen_sprites_to_draw

(***************************************************************************)
(* C30: inside a combine block the first AddSortableSpriteToDraw that is   *)
(* not clipped becomes the block's parent and moves the combine state from *)
(* PENDING to ACTIVE; a call that is clipped while the state is PENDING    *)
(* stores nothing and leaves the state PENDING; no later call of the block *)
(* creates a parent, so the block's parent is the first unclipped sprite.  *)
(***************************************************************************)
C30_FirstUnclippedIsParent ==
    \A k, m \in 1..Len(log) : (InBlockFrom(k, m) /\ IsSortable(m)) =>
        /\ FirstUnclipped(k, m) =>
            /\ CombineBefore(m) = SPRITE_COMBINE_PENDING
            /\ CombineAfter(m) = SPRITE_COMBINE_ACTIVE
            /\ BecameParent(m)
        /\ (CombineBefore(m) = SPRITE_COMBINE_PENDING /\ ClippedCall(m)) =>
            /\ CombineAfter(m) = SPRITE_COMBINE_PENDING
            /\ StoredNothing(m)
        /\ \A j \in (k + 1)..(m - 1) : FirstUnclipped(k, j) =>
            /\ CombineBefore(m) = SPRITE_COMBINE_ACTIVE
            /\ SameParents(Before(m), After(m))
            /\ LastParent(After(m)).image = log[j].arg.image

\* A block whose first sprite is clipped and stores nothing, whose second
\* sprite becomes the parent, and whose third is added to that parent.
C30_Witness ==
    \E k \in 1..Len(log) :
        /\ k + 3 <= Len(log)
        /\ InBlockFrom(k, k + 3)
        /\ IsSortable(k + 1) /\ ClippedCall(k + 1)
        /\ CombineAfter(k + 1) = SPRITE_COMBINE_PENDING /\ StoredNothing(k + 1)
        /\ FirstUnclipped(k, k + 2) /\ BecameParent(k + 2)
        /\ CombineAfter(k + 2) = SPRITE_COMBINE_ACTIVE
        /\ IsSortable(k + 3) /\ log[k + 3].arg.image # log[k + 2].arg.image
        /\ Len(After(k + 3).child_screen_sprites_to_draw) = 1
        /\ Len(After(k + 3).parent_sprites_to_draw) = 1

\* The tail references of state v that are in use: the active attachment
\* point and the tail of each foundation slot that references a parent.
TailRefs(v) ==
    ({v.last_child} \cup {v.last_foundation_child[p] : p \in {q \in FoundationParts : v.foundation[q] # -1}})
        \ {NullPtr}

\* The value of the link p designates in v.
LinkValue(v, p) ==
    IF p.vec = "parent" THEN v.parent_sprites_to_draw[p.idx + 1].first_child
    ELSE v.child_screen_sprites_to_draw[p.idx + 1].next

\* p designates a link of v that holds the end sentinel.
DesignatesEnd(v, p) == Live(v, p) /\ LinkValue(v, p) = -1

\* The parents of v whose chain holds child c.
ParentsHolding(v, c) == {q \in 1..Len(v.parent_sprites_to_draw) : c \in Range(Chain(v, q))}

(***************************************************************************)
(* C31: in every reachable state each non-null tail reference, last_child  *)
(* and the last_foundation_child of each active slot, designates a link    *)
(* whose value is the end sentinel -1, and every stored child is in the    *)
(* chain of exactly one parent.                                            *)
(***************************************************************************)
C31_TailsDesignateEnd ==
    /\ \A p \in TailRefs(vd) : DesignatesEnd(vd, p)
    /\ \A c \in 0..(Len(vd.child_screen_sprites_to_draw) - 1) :
        Cardinality(ParentsHolding(vd, c)) = 1

(***************************************************************************)
(* C32: while the callbacks of a region draw run, the combine state ACTIVE *)
(* implies that a parent is stored and that the active attachment point is *)
(* not null, so AddCombinedSprite has a last parent to attach to.          *)
(***************************************************************************)
C32_ActiveHasParent ==
    (pc = "accumulate" /\ vd.combine_sprites = SPRITE_COMBINE_ACTIVE) =>
        /\ vd.parent_sprites_to_draw # <<>>
        /\ vd.last_child # NullPtr

\* Inside an ACTIVE block a combined sprite was attached to the last parent.
C32_Witness ==
    /\ pc = "accumulate" /\ vd.combine_sprites = SPRITE_COMBINE_ACTIVE
    /\ log # <<>> /\ log[Len(log)].op = "AddSortableSpriteToDraw"
    /\ log[Len(log)].before.combine_sprites = SPRITE_COMBINE_ACTIVE
    /\ Len(vd.parent_sprites_to_draw) = 1
    /\ Chain(vd, 1) = <<0>>
    /\ vd.last_child = NextPtr(vd, 0)

\* Call k is DrawGroundSpriteAt with the active slot referencing a parent:
\* the call of AddChildSpriteToFoundation at line 600.
FoundationCall(k) ==
    /\ log[k].op = "DrawGroundSpriteAt"
    /\ Before(k).foundation[GroundPart(Before(k))] # -1

(***************************************************************************)
(* C33: AddChildSpriteToFoundation appends exactly one child to the chain  *)
(* of the parent the given slot references and leaves last_child as it was *)
(* before the call; the parents, the ground sprites, the combine state and *)
(* the chain of every other parent stay as they were.                      *)
(***************************************************************************)
C33_FoundationChildEffect ==
    \A k \in 1..Len(log) : FoundationCall(k) =>
        LET s == Before(k)
            t == After(k)
            p == s.foundation[GroundPart(s)] + 1
        IN  /\ StoredAsChildOf(s, t, p, log[k].arg.image)
            /\ t.last_child = s.last_child
            /\ SameParents(s, t)
            /\ t.tile_sprites_to_draw = s.tile_sprites_to_draw
            /\ t.combine_sprites = s.combine_sprites
            /\ \A q \in 1..Len(s.parent_sprites_to_draw) : q # p => Chain(t, q) = Chain(s, q)

(***************************************************************************)
(* The accumulator with AddChildSpriteToFoundation as an operation of its  *)
(* own: the function is not static, DrawSelectionSprite (line 928) and     *)
(* callers outside this file pass the part as an argument.                 *)
(***************************************************************************)
FoundationCalls ==
    {[image |-> "S", foundation_part |-> part, extra_offs_x |-> 0, extra_offs_y |-> -28] :
        part \in FoundationParts \cup {FOUNDATION_PART_END}}

AddFoundationChild ==
    /\ CanCall
    /\ \E f \in FoundationCalls :
        /\ vd' \in AddChildSpriteToFoundation(vd, ndebug, f.image, f.foundation_part,
                                              f.extra_offs_x, f.extra_offs_y)
        /\ log' = Logged("AddChildSpriteToFoundation", f)
    /\ UNCHANGED <<ndebug, draw_bounding_boxes, drawlog, region, sortVars, chk>>

FndNext ==
    \/ TileBegin
    \/ AddSortable
    \/ AddChild
    \/ StartCombine
    \/ EndCombine
    \/ OffsetGround
    \/ DrawGround
    \/ AddFoundationChild

SpecFnd == Init /\ [][FndNext]_vars

PartBefore(k) == Before(k).foundation_part

PartAfter(k) == After(k).foundation_part

\* The part stays or moves one step forward.
PartAdvances(a, b) ==
    \/ b = a
    \/ a = FOUNDATION_PART_NONE /\ b = FOUNDATION_PART_NORMAL
    \/ a = FOUNDATION_PART_NORMAL /\ b = FOUNDATION_PART_HALFTILE

\* The calls j..k are made for one tile.
SameTile(j, k) == \A i \in (j + 1)..k : log[i].op # "TileBegin"

IsOffset(k) == log[k].op = "OffsetGroundSprite"

\* Call k is AddChildSpriteToFoundation with a part outside the two slots,
\* or with a slot that references no parent.
BadPart(k) == log[k].arg.foundation_part \notin FoundationParts

EmptySlot(k) == ~BadPart(k) /\ Before(k).foundation[log[k].arg.foundation_part] = -1

\* What the calls other than AddChildSpriteToFoundation do to the part.
PartSteps ==
    \A k \in 1..Len(log) :
        /\ log[k].op # "TileBegin" => PartAdvances(PartBefore(k), PartAfter(k))
        /\ IsOffset(k) =>
            /\ PartBefore(k) = FOUNDATION_PART_NONE => PartAfter(k) = FOUNDATION_PART_NORMAL
            /\ PartBefore(k) = FOUNDATION_PART_NORMAL => PartAfter(k) = FOUNDATION_PART_HALFTILE
            /\ PartBefore(k) = FOUNDATION_PART_HALFTILE =>
                    After(k) = Aborted(Before(k), "not_reached")
            /\ \A i, j \in 1..(k - 1) :
                (i < j /\ IsOffset(i) /\ IsOffset(j) /\ SameTile(i, k)) =>
                    After(k) = Aborted(Before(k), "not_reached")
        /\ log[k].op = "DrawGroundSpriteAt" =>
            PartAfter(k) = (IF PartBefore(k) = FOUNDATION_PART_NONE
                            THEN FOUNDATION_PART_NORMAL ELSE PartBefore(k))

(***************************************************************************)
(* C34: within one tile the active foundation part advances only from NONE *)
(* to NORMAL to HALFTILE.  OffsetGroundSprite moves one step per call and  *)
(* a third call in the tile trips the unreachable-code check;              *)
(* DrawGroundSpriteAt moves NONE to NORMAL and otherwise leaves the part;  *)
(* AddChildSpriteToFoundation rejects a part outside the two slots and a   *)
(* slot that references no parent.                                         *)
(***************************************************************************)
C34_FoundationPartSteps ==
    /\ PartSteps
    /\ \A k \in 1..Len(log) :
        (log[k].op = "AddChildSpriteToFoundation" /\ (BadPart(k) \/ EmptySlot(k))) =>
            After(k) = Aborted(Before(k), "assert")

\* C34, amended: the two rejections are assertions.  Where they are compiled
\* out a part outside the two slots makes the call read past the per-part
\* arrays, and a call for an empty slot is accepted and stores nothing.
C34_Amended ==
    /\ PartSteps
    /\ \A k \in 1..Len(log) :
        (log[k].op = "AddChildSpriteToFoundation" /\ (BadPart(k) \/ EmptySlot(k))) =>
            IF ~ndebug THEN After(k) = Aborted(Before(k), "assert")
            ELSE IF BadPart(k)
            THEN After(k) \in {[Before(k) EXCEPT !.ub = TRUE], Aborted(Before(k), "fault")}
            ELSE After(k) = Before(k)

\* In a build without assertions: DrawGroundSpriteAt moved the part from
\* NONE to NORMAL, a call for the empty HALFTILE slot was accepted, and the
\* second OffsetGroundSprite of the tile tripped the unreachable-code check.
C34_Witness ==
    /\ ndebug /\ Len(log) = 4
    /\ log[1].op = "DrawGroundSpriteAt"
    /\ PartBefore(1) = FOUNDATION_PART_NONE /\ PartAfter(1) = FOUNDATION_PART_NORMAL
    /\ log[2].op = "AddChildSpriteToFoundation" /\ EmptySlot(2) /\ After(2) = Before(2)
    /\ IsOffset(3) /\ PartAfter(3) = FOUNDATION_PART_HALFTILE
    /\ IsOffset(4) /\ vd.abort = "not_reached"

\* Call k is AddSortableSpriteToDraw and has created a parent.
CreatedParent(k) ==
    /\ log[k].op = "AddSortableSpriteToDraw"
    /\ Len(After(k).parent_sprites_to_draw) = Len(Before(k).parent_sprites_to_draw) + 1

\* The ends of a box on one axis.
AxisMin(pos, offset) == pos + offset

AxisMax(pos, offset, extent) == pos + (IF offset >= extent THEN offset ELSE extent) - 1

(***************************************************************************)
(* C35: a parent created by AddSortableSpriteToDraw at the position        *)
(* (x, y, z) with the extents (w, h, dz) and the offsets (bbx, bby, bbz)   *)
(* has on each axis min = position + offset and                            *)
(* max = position + max(offset, extent) - 1, has an empty child chain and  *)
(* is the active attachment point.                                         *)
(***************************************************************************)
C35_NewParentBox ==
    \A k \in 1..Len(log) : CreatedParent(k) =>
        LET r == log[k].arg
            t == After(k)
            ps == LastParent(t)
        IN  /\ ps.xmin = AxisMin(r.x, r.bb_offset_x)
            /\ ps.xmax = AxisMax(r.x, r.bb_offset_x, r.w)
            /\ ps.ymin = AxisMin(r.y, r.bb_offset_y)
            /\ ps.ymax = AxisMax(r.y, r.bb_offset_y, r.h)
            /\ ps.zmin = AxisMin(r.z, r.bb_offset_z)
            /\ ps.zmax = AxisMax(r.z, r.bb_offset_z, r.dz)
            /\ ps.first_child = -1
            /\ Chain(t, Len(t.parent_sprites_to_draw)) = <<>>
            /\ t.last_child = FirstChildPtr(t, Len(t.parent_sprites_to_draw) - 1)
            /\ Live(t, t.last_child)

\* A parent was created whose offset is above the extent on the x axis and
\* below it on the y axis.
C35_Witness ==
    /\ Len(log) = 1 /\ CreatedParent(1)
    /\ log[1].arg.bb_offset_x = 2 /\ log[1].arg.w = 1
    /\ log[1].arg.bb_offset_y = -1 /\ log[1].arg.h = 2
    /\ LastParent(vd).xmin = 2 /\ LastParent(vd).xmax = 1
    /\ LastParent(vd).ymin = -1 /\ LastParent(vd).ymax = 1
    /\ vd.last_child = FirstChildPtr(vd, 0)

(***************************************************************************)
(* A whole call of ViewportDrawChk: the bisection, and for every piece     *)
(* that is small enough the invocation of ViewportDoDraw with its three    *)
(* phases, one piece after the other.  pc = "returned" between the calls.  *)
(***************************************************************************)
RunPorts == {vp \in ViewPorts : vp.zoom = MaxZoom}

RunRequests ==
    {r \in ChkRequests :
        /\ r.left = 2 /\ r.top = 1
        /\ <<r.right - r.left, r.bottom - r.top>> \in {<<0, 1>>, <<425, 212>>}}

RunInit ==
    /\ \E vp \in RunPorts, r \in RunRequests :
        chk = [vp |-> vp, request |-> r, pending |-> <<r>>, cut |-> <<>>, drawn |-> <<>>]
    /\ \E cap \in StorageChoices : vd = NewViewportDrawer(RegionDpi, cap)
    /\ log = <<>>
    /\ ndebug \in BOOLEAN
    /\ draw_bounding_boxes \in BOOLEAN
    /\ drawlog = <<>>
    /\ region = 1
    /\ boxes = <<>>
    /\ srt = SortUntouched(<<>>)
    /\ pc = "returned"

\* Lines 1842-1851: the piece is too big, the two halves are next.
RunSplit ==
    /\ pc = "returned"
    /\ chk.pending # <<>>
    /\ TooBig(chk.vp, Head(chk.pending))
    /\ chk' = [chk EXCEPT !.pending = Halves(Head(@)) \o Tail(@),
                          !.cut = Append(@, Head(chk.pending))]
    /\ UNCHANGED <<sortVars, accVars>>

\* Lines 1852-1859 and the prologue of ViewportDoDraw: the invocation for
\* the next piece starts.
RunDoDraw ==
    /\ pc = "returned"
    /\ chk.pending # <<>>
    /\ ~TooBig(chk.vp, Head(chk.pending))
    /\ chk' = [chk EXCEPT !.pending = Tail(@),
                          !.drawn = Append(@, [piece |-> Head(chk.pending),
                                               args |-> DoDrawArgs(chk.vp, Head(chk.pending))])]
    /\ vd' = Prologue(vd)
    /\ region' = IF chk.drawn = <<>> THEN 1 ELSE MaxRegions
    /\ log' = IF chk.drawn = <<>> THEN <<>>
              ELSE <<[op |-> "ViewportDoDraw", arg |-> NoArg, before |-> vd]>>
    /\ drawlog' = <<>>
    /\ pc' = "accumulate"
    /\ UNCHANGED <<boxes, srt, ndebug, draw_bounding_boxes>>

RunNext ==
    \/ RunSplit
    \/ RunDoDraw
    \/ DrawBudget /\ TileBegin
    \/ DrawBudget /\ AddSortable
    \/ DrawBudget /\ AddChild
    \/ DrawBudget /\ StartCombine
    \/ DrawBudget /\ EndCombine
    \/ DrawBudget /\ OffsetGround
    \/ DrawBudget /\ DrawGround
    \/ DrawBudget /\ AddString
    \/ DrawTileSprites
    \/ SortParentSprites
    \/ SortNext
    \/ DrawParentSprites
    \/ DrawBoundingBoxes
    \/ DrawStrings
    \/ ReturnFromDraw

SpecRun == RunInit /\ [][RunNext]_vars

\* The code runs on one thread and takes its next step whenever it has one.
FairSpecRun == SpecRun /\ WF_vars(RunNext)

\* Every piece has been drawn and the last ViewportDoDraw has returned.
RunCompleted == pc = "returned" /\ chk.pending = <<>> /\ chk.drawn # <<>>

\* A callback tripped a precondition check, which ends the process.
CheckTripped == vd.abort \in {"assert", "not_reached"}

\* The two halves of every piece that was cut are smaller on the cut axis.
HalvesSmaller ==
    \A i \in 1..Len(chk.cut) :
        \A h \in Range(Halves(chk.cut[i])) :
            IF SplitRows(chk.cut[i])
            THEN Height(h) < Height(chk.cut[i]) /\ Height(h) >= 0
            ELSE Width(h) < Width(chk.cut[i]) /\ Width(h) >= 0

====
